---------------------------- MODULE Spec2Model ----------------------------
(***************************************************************************)
(* Farm Manager 4U backend: accounts, bearer tokens, the ownership guard   *)
(* and the farm / crop / livestock / employee handlers, as a state machine *)
(* over the record store.                                                  *)
(*                                                                         *)
(* Conventions                                                             *)
(*  - a Go string that is produced or parsed character by character        *)
(*    (UUIDs, decimal numbers, environment values) is a sequence; the      *)
(*    empty string is << >>.  Other strings are TLA+ strings.              *)
(*  - a nullable result (a nil-able pointer) is a sequence of length 0/1.  *)
(*  - time is counted in minutes; the zero time.Time is ZeroTime.          *)
(*  - a request addresses a record through the query parameters the        *)
(*    handlers read (r.URL.Query().Get("id") / Get("farmId")).             *)
(***************************************************************************)
EXTENDS Integers, Sequences, FiniteSets, TLC

VARIABLES
    users,      \* table users      (data.User rows, soft-deleted rows kept)
    farms,      \* table farms      (data.Farm rows)
    crops,      \* table crops      (data.Crop rows)
    livestocks, \* table livestock  (data.Livestock rows)
    employees,  \* table employees  (data.Employee rows)
    issued,     \* history: tokens handed to clients, with the account at issuance
    otpLog,     \* history: email -> time of the latest GenerateAndSaveOTP (or ZeroTime)
    now,        \* wall clock, minutes
    env,        \* process environment (JWT_SECRET, JWT_EXPIRATION_HOURS)
    last,       \* the latest request and its response
    inflight    \* signup requests between their duplicate check and their insert

store == <<users, farms, crops, livestocks, employees>>
vars == <<users, farms, crops, livestocks, employees, issued, otpLog, now, env, last, inflight>>

----------------------------------------------------------------------------
(* Bounds of the model *)

MaxFarms == 1
MaxRecords == 1
MaxTokens == 2
MaxMinutes == 17
MaxHours == 3
MaxDays == 1
MaxInflight == 2
MaxListed == 2

(* Program constants *)

DefaultExpirationHours == 24
MaxDurationHours == 2562047
WrapMinutes == 307445734
OTPValidMinutes == 15
MinutesPerHour == 60
MinutesPerDay == 24 * MinutesPerHour
ZeroTime == -1

BearerPrefixLen == 7

StatusOK == 200
StatusCreated == 201
StatusBadRequest == 400
StatusUnauthorized == 401
StatusForbidden == 403
StatusNotFound == 404
StatusConflict == 409
StatusInternalServerError == 500

FallbackSecret == "your-super-secret-jwt-key"

----------------------------------------------------------------------------
(* Input alphabets *)

Emails == {"a@x.com", "b@x.com"}
Passwords == {"pw1", "pw2"}
RoleInputs == {"", "Admin"}
OTPCodes == {<<"1", "1", "1", "1", "1", "1">>, <<"2", "2", "2", "2", "2", "2">>}

----------------------------------------------------------------------------
(* strconv *)

Digits == <<"0", "1", "2", "3", "4", "5", "6", "7", "8", "9">>

IsDigit(c) == \E i \in 1..Len(Digits) : Digits[i] = c

DigitVal(c) == (CHOOSE i \in 1..Len(Digits) : Digits[i] = c) - 1

RECURSIVE DigitsVal(_)
DigitsVal(s) ==
    IF s = << >> THEN 0
    ELSE 10 * DigitsVal(SubSeq(s, 1, Len(s) - 1)) + DigitVal(s[Len(s)])

\* strconv.Atoi: optional sign, then one or more decimal digits.
Atoi(s) ==
    LET signed == Len(s) > 0 /\ s[1] \in {"+", "-"}
        body == IF signed THEN Tail(s) ELSE s
        ok == Len(body) > 0 /\ \A i \in 1..Len(body) : IsDigit(body[i])
    IN  [ok |-> ok,
         val |-> IF ~ok THEN 0
                 ELSE IF signed /\ s[1] = "-" THEN 0 - DigitsVal(body)
                 ELSE DigitsVal(body)]

RECURSIVE NatDigits(_)
NatDigits(n) ==
    IF n < 10 THEN <<Digits[n + 1]>>
    ELSE Append(NatDigits(n \div 10), Digits[(n % 10) + 1])

\* strconv.Itoa
Itoa(n) == IF n < 0 THEN <<"-">> \o NatDigits(0 - n) ELSE NatDigits(n)

----------------------------------------------------------------------------
(* bcrypt *)

\* The Blowfish key schedule of bcrypt reads 18 words of 4 bytes of the key.
BcryptKeyBytes == 72

\* The part of the plaintext the digest depends on: the key schedule cycles
\* over the plaintext and its terminator and stops after BcryptKeyBytes bytes,
\* so the bytes of a plaintext beyond that length are not read.
BcryptKey(password) ==
    IF Len(password) > BcryptKeyBytes THEN SubSeq(password, 1, BcryptKeyBytes) ELSE password

\* bcrypt.GenerateFromPassword returns ErrPasswordTooLong for a longer plaintext.
PasswordTooLong(password) == Len(password) > BcryptKeyBytes

\* bcrypt.GenerateFromPassword: a one-way digest of the plaintext (the random
\* salt is part of the digest and plays no role in the comparison's outcome).
HashPassword(password) == <<"bcrypt", BcryptKey(password)>>

\* bcrypt.CompareHashAndPassword inside UserRepo.PasswordMatches: the digest of
\* plainText under the salt of the stored hash, compared with the stored hash;
\* the length of plainText is not checked.
PasswordMatches(user, plainText) == user.Password = <<"bcrypt", BcryptKey(plainText)>>

----------------------------------------------------------------------------
(* GORM scopes on the users table *)

FirstOf(rows) == IF rows = << >> THEN << >> ELSE <<Head(rows)>>

\* UserRepo.GetByEmail: SELECT ... WHERE email = ? AND deleted_at IS NULL LIMIT 1
GetByEmail(email) ==
    FirstOf(SelectSeq(users, LAMBDA u : ~u.Deleted /\ u.Email = email))

\* UserRepo.GetOne: SELECT ... WHERE id = ? AND deleted_at IS NULL LIMIT 1
GetOne(id) ==
    FirstOf(SelectSeq(users, LAMBDA u : ~u.Deleted /\ u.ID = id))


\* A users table without the unique index on email.
EmailUnindexed(email) == FALSE

\* uniqueIndex on users.email: the index also covers soft-deleted rows.
EmailIndexed(email) == \E i \in 1..Len(users) : users[i].Email = email

\* gen_random_uuid(): a value no other row of the table carries.
NewUUID(table, id) == <<table, id>>

\* gorm DB.Save(&row): UPDATE of every column of the row with that primary
\* key. When the row was soft-deleted after the caller read it, the UPDATE,
\* scoped to deleted_at IS NULL, matches nothing and Save goes on to INSERT
\* .. ON CONFLICT DO UPDATE of every column, deleted_at among them: the
\* stored row becomes the caller's copy either way.
SaveRow(table, row) == [i \in 1..Len(table) |-> IF table[i].ID = row.ID THEN row ELSE table[i]]

\* gorm DB.Delete(&T{}, id): sets deleted_at on the live row with that id.
SoftDelete(table, id) ==
    [i \in 1..Len(table) |->
        IF table[i].ID = id /\ ~table[i].Deleted
        THEN [table[i] EXCEPT !.Deleted = TRUE]
        ELSE table[i]]

----------------------------------------------------------------------------
(* Token service (github.com/golang-jwt/jwt/v5 as the handlers use it) *)

HMACAlgs == {"HS256", "HS384", "HS512"}

\* The signature part of a token: a MAC of the signed content under the key.
Sign(alg, key, claims) == <<alg, key, claims>>

\* os.Getenv("JWT_SECRET") with its fallback
JwtSecret == IF env.JWT_SECRET = "" THEN FallbackSecret ELSE env.JWT_SECRET

\* expirationHours of GenerateJWT
ExpirationHours ==
    LET envExp == env.JWT_EXPIRATION_HOURS
    IN  IF envExp # << >> /\ Atoi(envExp).ok
        THEN Atoi(envExp).val
        ELSE DefaultExpirationHours

\* time.Hour * time.Duration(hours): a time.Duration is an int64 count of
\* nanoseconds and the product wraps around modulo 2^64.  MaxDurationHours is
\* the largest number of hours that fits, WrapMinutes is 2^64 ns in whole
\* minutes; the result is in minutes, rounded down, for a product that wraps
\* at most once (fewer than 7,686,143 hours either way).
HoursDuration(hours) ==
    IF hours > MaxDurationHours THEN hours * MinutesPerHour - WrapMinutes - 1
    ELSE IF hours < 0 - MaxDurationHours THEN hours * MinutesPerHour + WrapMinutes
    ELSE hours * MinutesPerHour

\* A claim set that carries no role.
NewClaimsWithoutRole(user) ==
    [UserID |-> user.ID,
     Email |-> user.Email,
     Role |-> "",
     ExpiresAt |-> now + HoursDuration(ExpirationHours),
     IssuedAt |-> now,
     NotBefore |-> now,
     Issuer |-> "farm4u",
     Subject |-> Itoa(user.ID)]

\* The claim set GenerateJWT builds for a user
NewClaims(user) ==
    [UserID |-> user.ID,
     Email |-> user.Email,
     Role |-> user.Role,
     ExpiresAt |-> now + HoursDuration(ExpirationHours),
     IssuedAt |-> now,
     NotBefore |-> now,
     Issuer |-> "farm4u",
     Subject |-> Itoa(user.ID)]

GenerateJWT(user) ==
    [wellFormed |-> TRUE,
     alg |-> "HS256",
     claims |-> NewClaims(user),
     sig |-> Sign("HS256", JwtSecret, NewClaims(user))]

\* A validation that never verifies the signature.
ValidateJWTUnsigned(tokenString) ==
    LET parsed == Len(tokenString) = 1 /\ tokenString[1].wellFormed
        token == tokenString[1]
        methodOk == token.alg \in HMACAlgs
        timeOk == now < token.claims.ExpiresAt /\ now >= token.claims.NotBefore
        ok == parsed /\ methodOk /\ timeOk
    IN  [ok |-> ok, claims |-> IF ok THEN <<token.claims>> ELSE << >>]

\* A validation that never looks at exp.
ValidateJWTUnexpiring(tokenString) ==
    LET parsed == Len(tokenString) = 1 /\ tokenString[1].wellFormed
        token == tokenString[1]
        methodOk == token.alg \in HMACAlgs
        sigOk == token.sig = Sign(token.alg, JwtSecret, token.claims)
        ok == parsed /\ methodOk /\ sigOk /\ now >= token.claims.NotBefore
    IN  [ok |-> ok, claims |-> IF ok THEN <<token.claims>> ELSE << >>]


\* A validation that also refuses the token of an account that is gone or
\* deactivated.
ValidateJWTRevoking(tokenString) ==
    LET parsed == Len(tokenString) = 1 /\ tokenString[1].wellFormed
        token == tokenString[1]
        methodOk == token.alg \in HMACAlgs
        sigOk == token.sig = Sign(token.alg, JwtSecret, token.claims)
        timeOk == now < token.claims.ExpiresAt /\ now >= token.claims.NotBefore
        account == GetOne(token.claims.UserID)
        ok == parsed /\ methodOk /\ sigOk /\ timeOk /\ account # << >> /\ account[1].Active
    IN  [ok |-> ok, claims |-> IF ok THEN <<token.claims>> ELSE << >>]

\* jwt.ParseWithClaims with the key function of ValidateJWT: the token string
\* must parse, its method must be of the HMAC family, its signature must verify
\* under the configured secret, and exp / nbf must hold at the current time.
ValidateJWT(tokenString) ==
    LET parsed == Len(tokenString) = 1 /\ tokenString[1].wellFormed
        token == tokenString[1]
        methodOk == token.alg \in HMACAlgs
        sigOk == token.sig = Sign(token.alg, JwtSecret, token.claims)
        timeOk == now < token.claims.ExpiresAt /\ now >= token.claims.NotBefore
        ok == parsed /\ methodOk /\ sigOk /\ timeOk
    IN  [ok |-> ok, claims |-> IF ok THEN <<token.claims>> ELSE << >>]

----------------------------------------------------------------------------
(* Requests and responses *)

NoHeaders == [XUserID |-> << >>, XUserEmail |-> "", XUserRole |-> ""]

BearerPrefix == <<"B", "e", "a", "r", "e", "r", " ">>

NoAuth == << >>
Bearer(tokenString) == BearerPrefix \o tokenString

NoBody == [kind |-> "none"]

\* fault names the store call that returns a failure while this request is
\* handled ("" when none does).
Req(auth, id, farmId, body) ==
    [auth |-> auth, id |-> id, farmId |-> farmId, body |-> body, hdr |-> NoHeaders,
     fault |-> ""]

\* The same request, handled while the named store call fails.
Faulty(req, site) == [req EXCEPT !.fault = site]

NoReq == Req(NoAuth, << >>, << >>, NoBody)

\* No response in flight.
Idle ==
    [op |-> "", req |-> NoReq, hdr |-> NoHeaders, ran |-> FALSE, at |-> 0,
     status |-> 0, msg |-> "", token |-> << >>, ids |-> {}, failed |-> FALSE]

\* app.errorJSON / app.writeJSON: the response of the handler that ran.
Reply(ctx, status, msg) ==
    [op |-> ctx.op, req |-> ctx.req, hdr |-> ctx.hdr, ran |-> TRUE, at |-> now,
     status |-> status, msg |-> msg, token |-> << >>, ids |-> {}, failed |-> FALSE]

ReplyOnly(ctx, status, msg) ==
    /\ last' = Reply(ctx, status, msg)
    /\ UNCHANGED <<users, farms, crops, livestocks, employees, issued, otpLog, now, env, inflight>>


\* The store call at that site returned an error other than "record not found".
Fails(ctx, site) == ctx.req.fault = site

\* The `if err != nil { ...; app.errorJSON(w, ..., status); return }` that
\* follows a store call: the response is marked as caused by a store failure.
StoreFailure(ctx, status, msg) ==
    /\ last' = [Reply(ctx, status, msg) EXCEPT !.failed = TRUE]
    /\ UNCHANGED <<users, farms, crops, livestocks, employees, issued, otpLog, now, env, inflight>>

----------------------------------------------------------------------------
(* Account handlers *)

\* The row SignupHandler builds and UserRepo.Insert stores.
NewUser(b) ==
    [ID |-> Len(users) + 1,
     UserID |-> NewUUID("user", Len(users) + 1),
     Email |-> b.Email,
     Password |-> HashPassword(b.Password),
     Role |-> IF b.Role = "" THEN "Farmer" ELSE b.Role,
     Active |-> TRUE,
     Deleted |-> FALSE,
     OTPCode |-> << >>,
     OTPExpiresAt |-> ZeroTime]


\* A signup that leaves the duplicate check to the unique index.
SignupHandlerUnchecked(ctx) ==
    LET b == ctx.req.body
    IN  IF b.FirstName = "" \/ b.LastName = "" \/ b.Email = "" \/ b.Password = ""
        THEN ReplyOnly(ctx, StatusBadRequest, "missing required fields")
        ELSE IF EmailIndexed(b.Email)
        THEN ReplyOnly(ctx, StatusInternalServerError, "failed to create user")
        ELSE /\ users' = Append(users, NewUser(b))
             /\ last' = Reply(ctx, StatusCreated, "User created successfully")
             /\ UNCHANGED <<farms, crops, livestocks, employees, issued, otpLog, now, env, inflight>>

SignupHandler(ctx) ==
    LET b == ctx.req.body
    IN  IF b.FirstName = "" \/ b.LastName = "" \/ b.Email = "" \/ b.Password = ""
        THEN ReplyOnly(ctx, StatusBadRequest, "missing required fields")
        ELSE IF Fails(ctx, "User.GetByEmail")
        THEN StoreFailure(ctx, StatusInternalServerError, "internal server error")
        ELSE IF GetByEmail(b.Email) # << >>
        THEN ReplyOnly(ctx, StatusConflict, "user with this email already exists")
        ELSE IF Fails(ctx, "User.Insert")
        THEN StoreFailure(ctx, StatusInternalServerError, "failed to create user")
        ELSE IF PasswordTooLong(b.Password)
        THEN ReplyOnly(ctx, StatusInternalServerError, "failed to create user")
        ELSE IF EmailIndexed(b.Email)
        THEN StoreFailure(ctx, StatusInternalServerError, "failed to create user")
        ELSE /\ users' = Append(users, NewUser(b))
             /\ last' = Reply(ctx, StatusCreated, "User created successfully")
             /\ UNCHANGED <<farms, crops, livestocks, employees, issued, otpLog, now, env, inflight>>

\* A successful token response; the token goes to the client.
IssueToken(ctx, user, msg) ==
    LET token == GenerateJWT(user)
        entry == [token |-> token, at |-> now, ID |-> user.ID,
                  Email |-> user.Email, Role |-> user.Role]
    IN  /\ Cardinality(issued \cup {entry}) <= MaxTokens
        /\ issued' = issued \cup {entry}
        /\ last' = [Reply(ctx, StatusOK, msg) EXCEPT !.token = <<token>>]
        /\ UNCHANGED <<users, farms, crops, livestocks, employees, otpLog, now, env, inflight>>

LoginHandler(ctx) ==
    LET b == ctx.req.body
        user == GetByEmail(b.Email)
    IN  IF b.Email = "" \/ b.Password = ""
        THEN ReplyOnly(ctx, StatusBadRequest, "email and password are required")
        ELSE IF Fails(ctx, "User.GetByEmail")
        THEN StoreFailure(ctx, StatusInternalServerError, "internal server error")
        ELSE IF user = << >>
        THEN ReplyOnly(ctx, StatusUnauthorized, "invalid email or password")
        ELSE IF ~user[1].Active
        THEN ReplyOnly(ctx, StatusUnauthorized, "account is deactivated")
        ELSE IF ~PasswordMatches(user[1], b.Password)
        THEN ReplyOnly(ctx, StatusUnauthorized, "invalid email or password")
        ELSE IssueToken(ctx, user[1], "Login successful")

\* UserRepo.GenerateAndSaveOTP, given the random 6-digit code it drew.
GenerateAndSaveOTP(email, otp) ==
    LET user == GetByEmail(email)[1]
    IN  SaveRow(users, [user EXCEPT !.OTPCode = otp,
                                    !.OTPExpiresAt = now + OTPValidMinutes])

ForgotPasswordHandler(ctx) ==
    LET b == ctx.req.body
    IN  IF b.Email = ""
        THEN ReplyOnly(ctx, StatusBadRequest, "email is required")
        ELSE IF Fails(ctx, "User.GetByEmail")
        THEN StoreFailure(ctx, StatusInternalServerError, "internal server error")
        ELSE IF GetByEmail(b.Email) = << >>
        THEN ReplyOnly(ctx, StatusOK,
                       "If the email exists, a password reset code has been sent")
        ELSE IF Fails(ctx, "User.GenerateAndSaveOTP")
        THEN StoreFailure(ctx, StatusInternalServerError, "failed to generate reset code")
        ELSE \E otp \in OTPCodes :
                /\ users' = GenerateAndSaveOTP(b.Email, otp)
                /\ otpLog' = [otpLog EXCEPT ![b.Email] = now]
                /\ last' = Reply(ctx, StatusOK,
                                 "Password reset code has been sent to your email")
                /\ UNCHANGED <<farms, crops, livestocks, employees, issued, now, env, inflight>>

\* A verification that compares the code and never looks at its expiry.
VerifyOTPIgnoringExpiry(email, otp) ==
    LET user == GetByEmail(email)
    IN  IF user = << >> THEN [valid |-> FALSE, err |-> "record not found"]
        ELSE IF user[1].OTPCode # otp THEN [valid |-> FALSE, err |-> ""]
        ELSE [valid |-> TRUE, err |-> ""]

\* A reset that replaces the hash and leaves the code in place.
ResetPasswordWithOTPKeepingCode(email, otp, newPassword) ==
    LET user == GetByEmail(email)
    IN  IF user = << >> \/ user[1].OTPCode # otp \/ now > user[1].OTPExpiresAt
        THEN [err |-> "invalid or expired OTP", users |-> users]
        ELSE [err |-> "",
              users |-> SaveRow(users,
                                [user[1] EXCEPT !.Password = HashPassword(newPassword)])]

\* UserRepo.VerifyOTP
VerifyOTP(email, otp) ==
    LET user == GetByEmail(email)
    IN  IF user = << >> THEN [valid |-> FALSE, err |-> "record not found"]
        ELSE IF user[1].OTPCode # otp THEN [valid |-> FALSE, err |-> ""]
        ELSE IF now > user[1].OTPExpiresAt
        THEN [valid |-> FALSE, err |-> "OTP has expired"]
        ELSE [valid |-> TRUE, err |-> ""]

\* UserRepo.ResetPasswordWithOTP: the error it returns and the table it leaves.
ResetPasswordWithOTP(email, otp, newPassword) ==
    LET v == VerifyOTP(email, otp)
    IN  IF v.err # "" THEN [err |-> v.err, users |-> users]
        ELSE IF ~v.valid THEN [err |-> "invalid or expired OTP", users |-> users]
        ELSE IF PasswordTooLong(newPassword)
        THEN [err |-> "bcrypt: password length exceeds 72 bytes", users |-> users]
        ELSE [err |-> "",
              users |-> SaveRow(users,
                                [GetByEmail(email)[1] EXCEPT
                                    !.Password = HashPassword(newPassword),
                                    !.OTPCode = << >>])]

\* A reset handler that answers 404 when no account has the email.
ResetPasswordHandlerNamingAccount(ctx) ==
    LET b == ctx.req.body
        r == ResetPasswordWithOTP(b.Email, b.OTP, b.NewPassword)
    IN  IF b.Email = "" \/ b.OTP = << >> \/ b.NewPassword = ""
        THEN ReplyOnly(ctx, StatusBadRequest, "email, OTP, and new password are required")
        ELSE IF r.err = "record not found"
        THEN ReplyOnly(ctx, StatusNotFound, "user not found")
        ELSE IF r.err # ""
        THEN ReplyOnly(ctx, StatusBadRequest, "invalid or expired reset code")
        ELSE /\ users' = r.users
             /\ last' = Reply(ctx, StatusOK, "Password reset successfully")
             /\ UNCHANGED <<farms, crops, livestocks, employees, issued, otpLog, now, env, inflight>>

ResetPasswordHandler(ctx) ==
    LET b == ctx.req.body
        r == ResetPasswordWithOTP(b.Email, b.OTP, b.NewPassword)
    IN  IF b.Email = "" \/ b.OTP = << >> \/ b.NewPassword = ""
        THEN ReplyOnly(ctx, StatusBadRequest, "email, OTP, and new password are required")
        ELSE IF Fails(ctx, "User.ResetPasswordWithOTP")
        THEN StoreFailure(ctx, StatusBadRequest, "invalid or expired reset code")
        ELSE IF r.err # ""
        THEN ReplyOnly(ctx, StatusBadRequest, "invalid or expired reset code")
        ELSE /\ users' = r.users
             /\ last' = Reply(ctx, StatusOK, "Password reset successfully")
             /\ UNCHANGED <<farms, crops, livestocks, employees, issued, otpLog, now, env, inflight>>


\* A refresh that re-issues from the claims of the presented token without
\* reading the account.
RefreshTokenHandlerFromClaims(ctx) ==
    LET userID == ctx.hdr.XUserID
        id == Atoi(userID)
    IN  IF userID = << >>
        THEN ReplyOnly(ctx, StatusUnauthorized, "user not authenticated")
        ELSE IF ~id.ok
        THEN ReplyOnly(ctx, StatusBadRequest, "invalid user ID")
        ELSE IssueToken(ctx,
                        [ID |-> id.val, Email |-> ctx.hdr.XUserEmail, Role |-> ctx.hdr.XUserRole],
                        "Token refreshed successfully")

RefreshTokenHandler(ctx) ==
    LET userID == ctx.hdr.XUserID
        id == Atoi(userID)
        user == GetOne(id.val)
    IN  IF userID = << >>
        THEN ReplyOnly(ctx, StatusUnauthorized, "user not authenticated")
        ELSE IF ~id.ok
        THEN ReplyOnly(ctx, StatusBadRequest, "invalid user ID")
        ELSE IF Fails(ctx, "User.GetOne")
        THEN StoreFailure(ctx, StatusInternalServerError, "internal server error")
        ELSE IF user = << >> \/ ~user[1].Active
        THEN ReplyOnly(ctx, StatusUnauthorized, "user not found or inactive")
        ELSE IssueToken(ctx, user[1], "Token refreshed successfully")

----------------------------------------------------------------------------
(* Resource repositories *)

\* A lookup by public id without the deleted_at IS NULL scope.
GetByFarmIDUnscoped(farmID) ==
    FirstOf(SelectSeq(farms, LAMBDA f : f.FarmID = farmID))

\* FarmRepo.GetByFarmID / CropRepo.GetByCropID / LivestockRepo.GetByLivestockID /
\* EmployeeRepo.GetByEmployeeID: WHERE <uuid column> = ? AND deleted_at IS NULL LIMIT 1
GetByFarmID(farmID) ==
    FirstOf(SelectSeq(farms, LAMBDA f : ~f.Deleted /\ f.FarmID = farmID))

GetByCropID(cropID) ==
    FirstOf(SelectSeq(crops, LAMBDA c : ~c.Deleted /\ c.CropID = cropID))

GetByLivestockID(livestockID) ==
    FirstOf(SelectSeq(livestocks, LAMBDA l : ~l.Deleted /\ l.LivestockID = livestockID))

GetByEmployeeID(employeeID) ==
    FirstOf(SelectSeq(employees, LAMBDA e : ~e.Deleted /\ e.EmployeeID = employeeID))

\* FarmRepo.GetByUserID: WHERE user_id = ? AND deleted_at IS NULL
\* A farm listing without the owner filter (FarmRepo.GetAll).
GetByUserIDUnfiltered(userID) == SelectSeq(farms, LAMBDA f : ~f.Deleted)

GetByUserID(userID) == SelectSeq(farms, LAMBDA f : ~f.Deleted /\ f.UserID = userID)

\* CropRepo.GetByFarmID and its livestock / employee twins
RowsByFarmID(table, farmID) == SelectSeq(table, LAMBDA r : ~r.Deleted /\ r.FarmID = farmID)

Records == Len(crops) + Len(livestocks) + Len(employees)

----------------------------------------------------------------------------
(* Farm handlers *)

\* The row CreateFarmHandler builds and FarmRepo.Insert stores.
NewFarm(b, userID) ==
    [ID |-> Len(farms) + 1,
     FarmID |-> NewUUID("farm", Len(farms) + 1),
     Name |-> b.Name,
     Description |-> b.Description,
     Location |-> b.Location,
     Size |-> b.Size,
     FarmType |-> IF b.FarmType = "" THEN "Mixed" ELSE b.FarmType,
     Status |-> IF b.Status = "" THEN "Active" ELSE b.Status,
     UserID |-> userID,
     Deleted |-> FALSE]

CreateFarmHandler(ctx) ==
    LET b == ctx.req.body
        userEmail == ctx.hdr.XUserEmail
        user == GetByEmail(userEmail)
        farm == NewFarm(b, user[1].UserID)
    IN  IF b.Name = "" \/ b.Location = ""
        THEN ReplyOnly(ctx, StatusBadRequest, "name and location are required")
        ELSE IF userEmail = ""
        THEN ReplyOnly(ctx, StatusUnauthorized, "user not authenticated")
        ELSE IF b.Size <= 0
        THEN ReplyOnly(ctx, StatusBadRequest, "farm size must be greater than 0")
        ELSE IF Fails(ctx, "User.GetByEmail")
        THEN StoreFailure(ctx, StatusInternalServerError, "internal server error")
        ELSE IF user = << >>
        THEN ReplyOnly(ctx, StatusNotFound, "user not found")
        ELSE IF Fails(ctx, "Farm.Insert")
        THEN StoreFailure(ctx, StatusInternalServerError, "failed to create farm")
        ELSE /\ Len(farms) < MaxFarms
             /\ farms' = Append(farms, farm)
             /\ last' = [Reply(ctx, StatusCreated, "Farm created successfully")
                            EXCEPT !.ids = {farm.FarmID}]
             /\ UNCHANGED <<users, crops, livestocks, employees, issued, otpLog, now, env, inflight>>

\* The check the farm handlers share after reading the farm:
\* user == nil || farm.UserID != user.UserID
FarmDenied(farm, user) == user = << >> \/ farm.UserID # user[1].UserID

GetFarmHandler(ctx) ==
    LET farmID == ctx.req.id
        userEmail == ctx.hdr.XUserEmail
        farm == GetByFarmID(farmID)
        user == GetByEmail(userEmail)
    IN  IF farmID = << >>
        THEN ReplyOnly(ctx, StatusBadRequest, "farm ID is required")
        ELSE IF userEmail = ""
        THEN ReplyOnly(ctx, StatusUnauthorized, "user not authenticated")
        ELSE IF Fails(ctx, "Farm.GetByFarmID")
        THEN StoreFailure(ctx, StatusInternalServerError, "internal server error")
        ELSE IF farm = << >>
        THEN ReplyOnly(ctx, StatusNotFound, "farm not found")
        ELSE IF Fails(ctx, "User.GetByEmail")
        THEN StoreFailure(ctx, StatusInternalServerError, "internal server error")
        ELSE IF FarmDenied(farm[1], user)
        THEN ReplyOnly(ctx, StatusForbidden, "access denied: farm does not belong to user")
        ELSE /\ last' = [Reply(ctx, StatusOK, "Farm retrieved successfully")
                            EXCEPT !.ids = {farm[1].FarmID}]
             /\ UNCHANGED <<users, farms, crops, livestocks, employees, issued, otpLog, now, env, inflight>>

GetFarmsHandler(ctx) ==
    LET userID == ctx.hdr.XUserID
        userEmail == ctx.hdr.XUserEmail
        user == GetByEmail(userEmail)
        found == GetByUserID(user[1].UserID)
    IN  IF userID = << >> \/ userEmail = ""
        THEN ReplyOnly(ctx, StatusUnauthorized, "user not authenticated")
        ELSE IF Fails(ctx, "User.GetByEmail")
        THEN StoreFailure(ctx, StatusInternalServerError, "internal server error")
        ELSE IF user = << >>
        THEN ReplyOnly(ctx, StatusNotFound, "user not found")
        ELSE IF Fails(ctx, "Farm.GetByUserID")
        THEN StoreFailure(ctx, StatusInternalServerError, "internal server error")
        ELSE /\ last' = [Reply(ctx, StatusOK, "Farms retrieved successfully")
                            EXCEPT !.ids = {found[i].FarmID : i \in 1..Len(found)}]
             /\ UNCHANGED <<users, farms, crops, livestocks, employees, issued, otpLog, now, env, inflight>>


\* An update that rebuilds the row from the request body alone, so the owner
\* reference falls back to its zero value.
MergeFarmDisowning(farm, b) ==
    [farm EXCEPT
        !.Name = b.Name,
        !.Description = b.Description,
        !.Location = b.Location,
        !.Size = b.Size,
        !.FarmType = b.FarmType,
        !.Status = b.Status,
        !.UserID = << >>]

\* "Update farm fields if provided"
MergeFarm(farm, b) ==
    [farm EXCEPT
        !.Name = IF b.Name # "" THEN b.Name ELSE @,
        !.Description = IF b.Description # "" THEN b.Description ELSE @,
        !.Location = IF b.Location # "" THEN b.Location ELSE @,
        !.Size = IF b.Size > 0 THEN b.Size ELSE @,
        !.FarmType = IF b.FarmType # "" THEN b.FarmType ELSE @,
        !.Status = IF b.Status # "" THEN b.Status ELSE @]

\* An update that saves the merged farm before it tests the owner.
UpdateFarmHandlerSavingFirst(ctx) ==
    LET farmID == ctx.req.id
        userEmail == ctx.hdr.XUserEmail
        existingFarm == GetByFarmID(farmID)
        user == GetByEmail(userEmail)
    IN  IF farmID = << >>
        THEN ReplyOnly(ctx, StatusBadRequest, "farm ID is required")
        ELSE IF userEmail = ""
        THEN ReplyOnly(ctx, StatusUnauthorized, "user not authenticated")
        ELSE IF existingFarm = << >>
        THEN ReplyOnly(ctx, StatusNotFound, "farm not found")
        ELSE /\ farms' = SaveRow(farms, MergeFarm(existingFarm[1], ctx.req.body))
             /\ last' = IF FarmDenied(existingFarm[1], user)
                        THEN Reply(ctx, StatusForbidden,
                                   "access denied: farm does not belong to user")
                        ELSE [Reply(ctx, StatusOK, "Farm updated successfully")
                                EXCEPT !.ids = {existingFarm[1].FarmID}]
             /\ UNCHANGED <<users, crops, livestocks, employees, issued, otpLog, now, env, inflight>>

UpdateFarmHandler(ctx) ==
    LET farmID == ctx.req.id
        userEmail == ctx.hdr.XUserEmail
        existingFarm == GetByFarmID(farmID)
        user == GetByEmail(userEmail)
    IN  IF farmID = << >>
        THEN ReplyOnly(ctx, StatusBadRequest, "farm ID is required")
        ELSE IF userEmail = ""
        THEN ReplyOnly(ctx, StatusUnauthorized, "user not authenticated")
        ELSE IF Fails(ctx, "Farm.GetByFarmID")
        THEN StoreFailure(ctx, StatusInternalServerError, "internal server error")
        ELSE IF existingFarm = << >>
        THEN ReplyOnly(ctx, StatusNotFound, "farm not found")
        ELSE IF Fails(ctx, "User.GetByEmail")
        THEN StoreFailure(ctx, StatusInternalServerError, "internal server error")
        ELSE IF FarmDenied(existingFarm[1], user)
        THEN ReplyOnly(ctx, StatusForbidden, "access denied: farm does not belong to user")
        ELSE IF Fails(ctx, "Farm.Update")
        THEN StoreFailure(ctx, StatusInternalServerError, "failed to update farm")
        ELSE /\ farms' = SaveRow(farms, MergeFarm(existingFarm[1], ctx.req.body))
             /\ last' = [Reply(ctx, StatusOK, "Farm updated successfully")
                            EXCEPT !.ids = {existingFarm[1].FarmID}]
             /\ UNCHANGED <<users, crops, livestocks, employees, issued, otpLog, now, env, inflight>>

DeleteFarmHandler(ctx) ==
    LET farmID == ctx.req.id
        userEmail == ctx.hdr.XUserEmail
        farm == GetByFarmID(farmID)
        user == GetByEmail(userEmail)
    IN  IF farmID = << >>
        THEN ReplyOnly(ctx, StatusBadRequest, "farm ID is required")
        ELSE IF userEmail = ""
        THEN ReplyOnly(ctx, StatusUnauthorized, "user not authenticated")
        ELSE IF Fails(ctx, "Farm.GetByFarmID")
        THEN StoreFailure(ctx, StatusInternalServerError, "internal server error")
        ELSE IF farm = << >>
        THEN ReplyOnly(ctx, StatusNotFound, "farm not found")
        ELSE IF Fails(ctx, "User.GetByEmail")
        THEN StoreFailure(ctx, StatusInternalServerError, "internal server error")
        ELSE IF FarmDenied(farm[1], user)
        THEN ReplyOnly(ctx, StatusForbidden, "access denied: farm does not belong to user")
        ELSE IF Fails(ctx, "Farm.DeleteByID")
        THEN StoreFailure(ctx, StatusInternalServerError, "failed to delete farm")
        ELSE /\ farms' = SoftDelete(farms, farm[1].ID)
             /\ last' = Reply(ctx, StatusOK, "Farm deleted successfully")
             /\ UNCHANGED <<users, crops, livestocks, employees, issued, otpLog, now, env, inflight>>

----------------------------------------------------------------------------
(* Crop, livestock and employee handlers *)

\* A guard that only asks whether the owning farm exists.
OwnerDeniedFarmMissing(farm, user) == farm = << >>

\* A guard that lets an account with the Admin role through to any farm.
OwnerDeniedUnlessAdmin(farm, user) ==
    farm = << >> \/ (farm[1].UserID # user.UserID /\ user.Role # "Admin")

\* The check the crop / livestock / employee handlers share after reading the
\* owning farm: farm == nil || farm.UserID != user.UserID
OwnerDenied(farm, user) == farm = << >> \/ farm[1].UserID # user.UserID

NewCrop(b, farmID) ==
    [ID |-> Len(crops) + 1,
     CropID |-> NewUUID("crop", Len(crops) + 1),
     FarmID |-> farmID,
     Name |-> b.Name,
     PlantingDate |-> b.PlantingDate,
     HarvestDate |-> b.HarvestDate,
     Quantity |-> b.Quantity,
     Status |-> IF b.Status = "" THEN "Growing" ELSE b.Status,
     Notes |-> b.Notes,
     Deleted |-> FALSE]

\* An update that copies every field of the request, supplied or not.
MergeCropOverwriting(crop, b) ==
    [crop EXCEPT
        !.Name = b.Name,
        !.PlantingDate = b.PlantingDate,
        !.HarvestDate = b.HarvestDate,
        !.Quantity = b.Quantity,
        !.Status = b.Status,
        !.Notes = b.Notes]

\* "Update crop fields if provided"
MergeCrop(crop, b) ==
    [crop EXCEPT
        !.Name = IF b.Name # "" THEN b.Name ELSE @,
        !.PlantingDate = IF b.PlantingDate # << >> THEN b.PlantingDate ELSE @,
        !.HarvestDate = IF b.HarvestDate # << >> THEN b.HarvestDate ELSE @,
        !.Quantity = IF b.Quantity > 0 THEN b.Quantity ELSE @,
        !.Status = IF b.Status # "" THEN b.Status ELSE @,
        !.Notes = IF b.Notes # "" THEN b.Notes ELSE @]

CreateCropHandler(ctx) ==
    LET b == ctx.req.body
        farmID == ctx.req.farmId
        userEmail == ctx.hdr.XUserEmail
        user == GetByEmail(userEmail)
        farm == GetByFarmID(farmID)
        row == NewCrop(b, farmID)
    IN  IF b.Name = "" \/ b.Quantity <= 0
        THEN ReplyOnly(ctx, StatusBadRequest, "name and quantity are required")
        ELSE IF farmID = << >>
        THEN ReplyOnly(ctx, StatusBadRequest, "farm ID is required")
        ELSE IF userEmail = ""
        THEN ReplyOnly(ctx, StatusUnauthorized, "user not authenticated")
        ELSE IF Fails(ctx, "User.GetByEmail")
        THEN StoreFailure(ctx, StatusInternalServerError, "internal server error")
        ELSE IF user = << >>
        THEN ReplyOnly(ctx, StatusNotFound, "user not found")
        ELSE IF Fails(ctx, "Farm.GetByFarmID")
        THEN StoreFailure(ctx, StatusInternalServerError, "internal server error")
        ELSE IF OwnerDenied(farm, user[1])
        THEN ReplyOnly(ctx, StatusForbidden, "farm not found or access denied")
        ELSE IF Fails(ctx, "Crop.Insert")
        THEN StoreFailure(ctx, StatusInternalServerError, "failed to create crop")
        ELSE /\ Records < MaxRecords
             /\ crops' = Append(crops, row)
             /\ last' = [Reply(ctx, StatusCreated, "Crop created successfully") EXCEPT !.ids = {row.CropID}]
             /\ UNCHANGED <<users, farms, livestocks, employees, issued, otpLog, now, env, inflight>>

GetCropHandler(ctx) ==
    LET cropID == ctx.req.id
        userEmail == ctx.hdr.XUserEmail
        crop == GetByCropID(cropID)
        user == GetByEmail(userEmail)
        farm == GetByFarmID(crop[1].FarmID)
    IN  IF cropID = << >>
        THEN ReplyOnly(ctx, StatusBadRequest, "crop ID is required")
        ELSE IF userEmail = ""
        THEN ReplyOnly(ctx, StatusUnauthorized, "user not authenticated")
        ELSE IF Fails(ctx, "Crop.GetByCropID")
        THEN StoreFailure(ctx, StatusInternalServerError, "internal server error")
        ELSE IF crop = << >>
        THEN ReplyOnly(ctx, StatusNotFound, "crop not found")
        ELSE IF Fails(ctx, "User.GetByEmail")
        THEN StoreFailure(ctx, StatusInternalServerError, "internal server error")
        ELSE IF user = << >>
        THEN ReplyOnly(ctx, StatusNotFound, "user not found")
        ELSE IF Fails(ctx, "Farm.GetByFarmID")
        THEN StoreFailure(ctx, StatusInternalServerError, "internal server error")
        ELSE IF OwnerDenied(farm, user[1])
        THEN ReplyOnly(ctx, StatusForbidden, "access denied: crop does not belong to user's farm")
        ELSE /\ last' = [Reply(ctx, StatusOK, "Crop retrieved successfully") EXCEPT !.ids = {crop[1].CropID}]
             /\ UNCHANGED <<users, farms, crops, livestocks, employees, issued, otpLog, now, env, inflight>>

GetCropsHandler(ctx) ==
    LET farmID == ctx.req.farmId
        userEmail == ctx.hdr.XUserEmail
        user == GetByEmail(userEmail)
        farm == GetByFarmID(farmID)
        found == RowsByFarmID(crops, farmID)
    IN  IF farmID = << >>
        THEN ReplyOnly(ctx, StatusBadRequest, "farm ID is required")
        ELSE IF userEmail = ""
        THEN ReplyOnly(ctx, StatusUnauthorized, "user not authenticated")
        ELSE IF Fails(ctx, "User.GetByEmail")
        THEN StoreFailure(ctx, StatusInternalServerError, "internal server error")
        ELSE IF user = << >>
        THEN ReplyOnly(ctx, StatusNotFound, "user not found")
        ELSE IF Fails(ctx, "Farm.GetByFarmID")
        THEN StoreFailure(ctx, StatusInternalServerError, "internal server error")
        ELSE IF OwnerDenied(farm, user[1])
        THEN ReplyOnly(ctx, StatusForbidden, "farm not found or access denied")
        ELSE IF Fails(ctx, "Crop.GetByFarmID")
        THEN StoreFailure(ctx, StatusInternalServerError, "internal server error")
        ELSE /\ last' = [Reply(ctx, StatusOK, "Crops retrieved successfully")
                            EXCEPT !.ids = {found[i].CropID : i \in 1..Len(found)}]
             /\ UNCHANGED <<users, farms, crops, livestocks, employees, issued, otpLog, now, env, inflight>>

UpdateCropHandler(ctx) ==
    LET cropID == ctx.req.id
        userEmail == ctx.hdr.XUserEmail
        crop == GetByCropID(cropID)
        user == GetByEmail(userEmail)
        farm == GetByFarmID(crop[1].FarmID)
    IN  IF cropID = << >>
        THEN ReplyOnly(ctx, StatusBadRequest, "crop ID is required")
        ELSE IF userEmail = ""
        THEN ReplyOnly(ctx, StatusUnauthorized, "user not authenticated")
        ELSE IF Fails(ctx, "Crop.GetByCropID")
        THEN StoreFailure(ctx, StatusInternalServerError, "internal server error")
        ELSE IF crop = << >>
        THEN ReplyOnly(ctx, StatusNotFound, "crop not found")
        ELSE IF Fails(ctx, "User.GetByEmail")
        THEN StoreFailure(ctx, StatusInternalServerError, "internal server error")
        ELSE IF user = << >>
        THEN ReplyOnly(ctx, StatusNotFound, "user not found")
        ELSE IF Fails(ctx, "Farm.GetByFarmID")
        THEN StoreFailure(ctx, StatusInternalServerError, "internal server error")
        ELSE IF OwnerDenied(farm, user[1])
        THEN ReplyOnly(ctx, StatusForbidden, "access denied: crop does not belong to user's farm")
        ELSE IF Fails(ctx, "Crop.Update")
        THEN StoreFailure(ctx, StatusInternalServerError, "failed to update crop")
        ELSE /\ crops' = SaveRow(crops, MergeCrop(crop[1], ctx.req.body))
             /\ last' = [Reply(ctx, StatusOK, "Crop updated successfully") EXCEPT !.ids = {crop[1].CropID}]
             /\ UNCHANGED <<users, farms, livestocks, employees, issued, otpLog, now, env, inflight>>

DeleteCropHandler(ctx) ==
    LET cropID == ctx.req.id
        userEmail == ctx.hdr.XUserEmail
        crop == GetByCropID(cropID)
        user == GetByEmail(userEmail)
        farm == GetByFarmID(crop[1].FarmID)
    IN  IF cropID = << >>
        THEN ReplyOnly(ctx, StatusBadRequest, "crop ID is required")
        ELSE IF userEmail = ""
        THEN ReplyOnly(ctx, StatusUnauthorized, "user not authenticated")
        ELSE IF Fails(ctx, "Crop.GetByCropID")
        THEN StoreFailure(ctx, StatusInternalServerError, "internal server error")
        ELSE IF crop = << >>
        THEN ReplyOnly(ctx, StatusNotFound, "crop not found")
        ELSE IF Fails(ctx, "User.GetByEmail")
        THEN StoreFailure(ctx, StatusInternalServerError, "internal server error")
        ELSE IF user = << >>
        THEN ReplyOnly(ctx, StatusNotFound, "user not found")
        ELSE IF Fails(ctx, "Farm.GetByFarmID")
        THEN StoreFailure(ctx, StatusInternalServerError, "internal server error")
        ELSE IF OwnerDenied(farm, user[1])
        THEN ReplyOnly(ctx, StatusForbidden, "access denied: crop does not belong to user's farm")
        ELSE IF Fails(ctx, "Crop.DeleteByID")
        THEN StoreFailure(ctx, StatusInternalServerError, "failed to delete crop")
        ELSE /\ crops' = SoftDelete(crops, crop[1].ID)
             /\ last' = Reply(ctx, StatusOK, "Crop deleted successfully")
             /\ UNCHANGED <<users, farms, livestocks, employees, issued, otpLog, now, env, inflight>>

NewLivestock(b, farmID) ==
    [ID |-> Len(livestocks) + 1,
     LivestockID |-> NewUUID("livestock", Len(livestocks) + 1),
     FarmID |-> farmID,
     Type |-> b.Type,
     Count |-> b.Count,
     AcquisitionDate |-> b.AcquisitionDate,
     HealthStatus |-> IF b.HealthStatus = "" THEN "Healthy" ELSE b.HealthStatus,
     Notes |-> b.Notes,
     Deleted |-> FALSE]

\* "Update livestock fields if provided"
MergeLivestock(livestock, b) ==
    [livestock EXCEPT
        !.Type = IF b.Type # "" THEN b.Type ELSE @,
        !.Count = IF b.Count > 0 THEN b.Count ELSE @,
        !.AcquisitionDate = IF b.AcquisitionDate # << >> THEN b.AcquisitionDate ELSE @,
        !.HealthStatus = IF b.HealthStatus # "" THEN b.HealthStatus ELSE @,
        !.Notes = IF b.Notes # "" THEN b.Notes ELSE @]

CreateLivestockHandler(ctx) ==
    LET b == ctx.req.body
        farmID == ctx.req.farmId
        userEmail == ctx.hdr.XUserEmail
        user == GetByEmail(userEmail)
        farm == GetByFarmID(farmID)
        row == NewLivestock(b, farmID)
    IN  IF b.Type = "" \/ b.Count <= 0
        THEN ReplyOnly(ctx, StatusBadRequest, "type and count are required")
        ELSE IF farmID = << >>
        THEN ReplyOnly(ctx, StatusBadRequest, "farm ID is required")
        ELSE IF userEmail = ""
        THEN ReplyOnly(ctx, StatusUnauthorized, "user not authenticated")
        ELSE IF Fails(ctx, "User.GetByEmail")
        THEN StoreFailure(ctx, StatusInternalServerError, "internal server error")
        ELSE IF user = << >>
        THEN ReplyOnly(ctx, StatusNotFound, "user not found")
        ELSE IF Fails(ctx, "Farm.GetByFarmID")
        THEN StoreFailure(ctx, StatusInternalServerError, "internal server error")
        ELSE IF OwnerDenied(farm, user[1])
        THEN ReplyOnly(ctx, StatusForbidden, "farm not found or access denied")
        ELSE IF Fails(ctx, "Livestock.Insert")
        THEN StoreFailure(ctx, StatusInternalServerError, "failed to create livestock")
        ELSE /\ Records < MaxRecords
             /\ livestocks' = Append(livestocks, row)
             /\ last' = [Reply(ctx, StatusCreated, "Livestock created successfully") EXCEPT !.ids = {row.LivestockID}]
             /\ UNCHANGED <<users, farms, crops, employees, issued, otpLog, now, env, inflight>>

GetLivestocksHandler(ctx) ==
    LET farmID == ctx.req.farmId
        userEmail == ctx.hdr.XUserEmail
        user == GetByEmail(userEmail)
        farm == GetByFarmID(farmID)
        found == RowsByFarmID(livestocks, farmID)
    IN  IF farmID = << >>
        THEN ReplyOnly(ctx, StatusBadRequest, "farm ID is required")
        ELSE IF userEmail = ""
        THEN ReplyOnly(ctx, StatusUnauthorized, "user not authenticated")
        ELSE IF Fails(ctx, "User.GetByEmail")
        THEN StoreFailure(ctx, StatusInternalServerError, "internal server error")
        ELSE IF user = << >>
        THEN ReplyOnly(ctx, StatusNotFound, "user not found")
        ELSE IF Fails(ctx, "Farm.GetByFarmID")
        THEN StoreFailure(ctx, StatusInternalServerError, "internal server error")
        ELSE IF OwnerDenied(farm, user[1])
        THEN ReplyOnly(ctx, StatusForbidden, "farm not found or access denied")
        ELSE IF Fails(ctx, "Livestock.GetByFarmID")
        THEN StoreFailure(ctx, StatusInternalServerError, "internal server error")
        ELSE /\ last' = [Reply(ctx, StatusOK, "Livestock retrieved successfully")
                            EXCEPT !.ids = {found[i].LivestockID : i \in 1..Len(found)}]
             /\ UNCHANGED <<users, farms, crops, livestocks, employees, issued, otpLog, now, env, inflight>>

UpdateLivestockHandler(ctx) ==
    LET livestockID == ctx.req.id
        userEmail == ctx.hdr.XUserEmail
        livestock == GetByLivestockID(livestockID)
        user == GetByEmail(userEmail)
        farm == GetByFarmID(livestock[1].FarmID)
    IN  IF livestockID = << >>
        THEN ReplyOnly(ctx, StatusBadRequest, "livestock ID is required")
        ELSE IF userEmail = ""
        THEN ReplyOnly(ctx, StatusUnauthorized, "user not authenticated")
        ELSE IF Fails(ctx, "Livestock.GetByLivestockID")
        THEN StoreFailure(ctx, StatusInternalServerError, "internal server error")
        ELSE IF livestock = << >>
        THEN ReplyOnly(ctx, StatusNotFound, "livestock not found")
        ELSE IF Fails(ctx, "User.GetByEmail")
        THEN StoreFailure(ctx, StatusInternalServerError, "internal server error")
        ELSE IF user = << >>
        THEN ReplyOnly(ctx, StatusNotFound, "user not found")
        ELSE IF Fails(ctx, "Farm.GetByFarmID")
        THEN StoreFailure(ctx, StatusInternalServerError, "internal server error")
        ELSE IF OwnerDenied(farm, user[1])
        THEN ReplyOnly(ctx, StatusForbidden, "access denied: livestock does not belong to user's farm")
        ELSE IF Fails(ctx, "Livestock.Update")
        THEN StoreFailure(ctx, StatusInternalServerError, "failed to update livestock")
        ELSE /\ livestocks' = SaveRow(livestocks, MergeLivestock(livestock[1], ctx.req.body))
             /\ last' = [Reply(ctx, StatusOK, "Livestock updated successfully") EXCEPT !.ids = {livestock[1].LivestockID}]
             /\ UNCHANGED <<users, farms, crops, employees, issued, otpLog, now, env, inflight>>

DeleteLivestockHandler(ctx) ==
    LET livestockID == ctx.req.id
        userEmail == ctx.hdr.XUserEmail
        livestock == GetByLivestockID(livestockID)
        user == GetByEmail(userEmail)
        farm == GetByFarmID(livestock[1].FarmID)
    IN  IF livestockID = << >>
        THEN ReplyOnly(ctx, StatusBadRequest, "livestock ID is required")
        ELSE IF userEmail = ""
        THEN ReplyOnly(ctx, StatusUnauthorized, "user not authenticated")
        ELSE IF Fails(ctx, "Livestock.GetByLivestockID")
        THEN StoreFailure(ctx, StatusInternalServerError, "internal server error")
        ELSE IF livestock = << >>
        THEN ReplyOnly(ctx, StatusNotFound, "livestock not found")
        ELSE IF Fails(ctx, "User.GetByEmail")
        THEN StoreFailure(ctx, StatusInternalServerError, "internal server error")
        ELSE IF user = << >>
        THEN ReplyOnly(ctx, StatusNotFound, "user not found")
        ELSE IF Fails(ctx, "Farm.GetByFarmID")
        THEN StoreFailure(ctx, StatusInternalServerError, "internal server error")
        ELSE IF OwnerDenied(farm, user[1])
        THEN ReplyOnly(ctx, StatusForbidden, "access denied: livestock does not belong to user's farm")
        ELSE IF Fails(ctx, "Livestock.DeleteByID")
        THEN StoreFailure(ctx, StatusInternalServerError, "failed to delete livestock")
        ELSE /\ livestocks' = SoftDelete(livestocks, livestock[1].ID)
             /\ last' = Reply(ctx, StatusOK, "Livestock deleted successfully")
             /\ UNCHANGED <<users, farms, crops, employees, issued, otpLog, now, env, inflight>>

\* "If UserID is provided, verify the user exists": the linked account, looked
\* up by e-mail; reqUserID is nil (<< >>) or one string.
LinkedUser(reqUserID) == GetByEmail(reqUserID[1])

LinkRequested(reqUserID) == reqUserID # << >> /\ reqUserID[1] # ""

\* req.UserID after the lookup: the linked account's UserID when one was asked for.
ResolvedUserID(reqUserID) ==
    IF LinkRequested(reqUserID) THEN <<LinkedUser(reqUserID)[1].UserID>> ELSE reqUserID

NewEmployee(b, farmID) ==
    [ID |-> Len(employees) + 1,
     EmployeeID |-> NewUUID("employee", Len(employees) + 1),
     UserID |-> ResolvedUserID(b.UserID),
     FarmID |-> farmID,
     FirstName |-> b.FirstName,
     LastName |-> b.LastName,
     Position |-> b.Position,
     Salary |-> b.Salary,
     HireDate |-> b.HireDate,
     ContactInfo |-> b.ContactInfo,
     Status |-> IF b.Status = "" THEN "Active" ELSE b.Status,
     Deleted |-> FALSE]

\* "Update employee fields if provided"
MergeEmployee(employee, b) ==
    [employee EXCEPT
        !.FirstName = IF b.FirstName # "" THEN b.FirstName ELSE @,
        !.LastName = IF b.LastName # "" THEN b.LastName ELSE @,
        !.Position = IF b.Position # "" THEN b.Position ELSE @,
        !.Salary = IF b.Salary > 0 THEN b.Salary ELSE @,
        !.HireDate = IF b.HireDate # << >> THEN b.HireDate ELSE @,
        !.ContactInfo = IF b.ContactInfo # "" THEN b.ContactInfo ELSE @,
        !.Status = IF b.Status # "" THEN b.Status ELSE @,
        !.UserID = IF b.UserID # << >> THEN ResolvedUserID(b.UserID) ELSE @]

CreateEmployeeHandler(ctx) ==
    LET b == ctx.req.body
        farmID == ctx.req.farmId
        userEmail == ctx.hdr.XUserEmail
        user == GetByEmail(userEmail)
        farm == GetByFarmID(farmID)
        row == NewEmployee(b, farmID)
    IN  IF b.FirstName = "" \/ b.LastName = "" \/ b.Position = ""
        THEN ReplyOnly(ctx, StatusBadRequest, "firstName, lastName, and position are required")
        ELSE IF farmID = << >>
        THEN ReplyOnly(ctx, StatusBadRequest, "farm ID is required")
        ELSE IF userEmail = ""
        THEN ReplyOnly(ctx, StatusUnauthorized, "user not authenticated")
        ELSE IF Fails(ctx, "User.GetByEmail")
        THEN StoreFailure(ctx, StatusInternalServerError, "internal server error")
        ELSE IF user = << >>
        THEN ReplyOnly(ctx, StatusNotFound, "user not found")
        ELSE IF Fails(ctx, "Farm.GetByFarmID")
        THEN StoreFailure(ctx, StatusInternalServerError, "internal server error")
        ELSE IF OwnerDenied(farm, user[1])
        THEN ReplyOnly(ctx, StatusForbidden, "farm not found or access denied")
        ELSE IF LinkRequested(b.UserID) /\ Fails(ctx, "User.GetByEmail(linked)")
        THEN StoreFailure(ctx, StatusBadRequest, "linked user not found")
        ELSE IF LinkRequested(b.UserID) /\ LinkedUser(b.UserID) = << >>
        THEN ReplyOnly(ctx, StatusBadRequest, "linked user not found")
        ELSE IF Fails(ctx, "Employee.Insert")
        THEN StoreFailure(ctx, StatusInternalServerError, "failed to create employee")
        ELSE /\ Records < MaxRecords
             /\ employees' = Append(employees, row)
             /\ last' = [Reply(ctx, StatusCreated, "Employee created successfully") EXCEPT !.ids = {row.EmployeeID}]
             /\ UNCHANGED <<users, farms, crops, livestocks, issued, otpLog, now, env, inflight>>

GetEmployeeHandler(ctx) ==
    LET employeeID == ctx.req.id
        userEmail == ctx.hdr.XUserEmail
        employee == GetByEmployeeID(employeeID)
        user == GetByEmail(userEmail)
        farm == GetByFarmID(employee[1].FarmID)
    IN  IF employeeID = << >>
        THEN ReplyOnly(ctx, StatusBadRequest, "employee ID is required")
        ELSE IF userEmail = ""
        THEN ReplyOnly(ctx, StatusUnauthorized, "user not authenticated")
        ELSE IF Fails(ctx, "Employee.GetByEmployeeID")
        THEN StoreFailure(ctx, StatusInternalServerError, "internal server error")
        ELSE IF employee = << >>
        THEN ReplyOnly(ctx, StatusNotFound, "employee not found")
        ELSE IF Fails(ctx, "User.GetByEmail")
        THEN StoreFailure(ctx, StatusInternalServerError, "internal server error")
        ELSE IF user = << >>
        THEN ReplyOnly(ctx, StatusNotFound, "user not found")
        ELSE IF Fails(ctx, "Farm.GetByFarmID")
        THEN StoreFailure(ctx, StatusInternalServerError, "internal server error")
        ELSE IF OwnerDenied(farm, user[1])
        THEN ReplyOnly(ctx, StatusForbidden, "access denied: employee does not belong to user's farm")
        ELSE /\ last' = [Reply(ctx, StatusOK, "Employee retrieved successfully") EXCEPT !.ids = {employee[1].EmployeeID}]
             /\ UNCHANGED <<users, farms, crops, livestocks, employees, issued, otpLog, now, env, inflight>>

GetEmployeesHandler(ctx) ==
    LET farmID == ctx.req.farmId
        userEmail == ctx.hdr.XUserEmail
        user == GetByEmail(userEmail)
        farm == GetByFarmID(farmID)
        found == RowsByFarmID(employees, farmID)
    IN  IF farmID = << >>
        THEN ReplyOnly(ctx, StatusBadRequest, "farm ID is required")
        ELSE IF userEmail = ""
        THEN ReplyOnly(ctx, StatusUnauthorized, "user not authenticated")
        ELSE IF Fails(ctx, "User.GetByEmail")
        THEN StoreFailure(ctx, StatusInternalServerError, "internal server error")
        ELSE IF user = << >>
        THEN ReplyOnly(ctx, StatusNotFound, "user not found")
        ELSE IF Fails(ctx, "Farm.GetByFarmID")
        THEN StoreFailure(ctx, StatusInternalServerError, "internal server error")
        ELSE IF OwnerDenied(farm, user[1])
        THEN ReplyOnly(ctx, StatusForbidden, "farm not found or access denied")
        ELSE IF Fails(ctx, "Employee.GetByFarmID")
        THEN StoreFailure(ctx, StatusInternalServerError, "internal server error")
        ELSE /\ last' = [Reply(ctx, StatusOK, "Employees retrieved successfully")
                            EXCEPT !.ids = {found[i].EmployeeID : i \in 1..Len(found)}]
             /\ UNCHANGED <<users, farms, crops, livestocks, employees, issued, otpLog, now, env, inflight>>

UpdateEmployeeHandler(ctx) ==
    LET employeeID == ctx.req.id
        userEmail == ctx.hdr.XUserEmail
        employee == GetByEmployeeID(employeeID)
        user == GetByEmail(userEmail)
        farm == GetByFarmID(employee[1].FarmID)
    IN  IF employeeID = << >>
        THEN ReplyOnly(ctx, StatusBadRequest, "employee ID is required")
        ELSE IF userEmail = ""
        THEN ReplyOnly(ctx, StatusUnauthorized, "user not authenticated")
        ELSE IF Fails(ctx, "Employee.GetByEmployeeID")
        THEN StoreFailure(ctx, StatusInternalServerError, "internal server error")
        ELSE IF employee = << >>
        THEN ReplyOnly(ctx, StatusNotFound, "employee not found")
        ELSE IF Fails(ctx, "User.GetByEmail")
        THEN StoreFailure(ctx, StatusInternalServerError, "internal server error")
        ELSE IF user = << >>
        THEN ReplyOnly(ctx, StatusNotFound, "user not found")
        ELSE IF Fails(ctx, "Farm.GetByFarmID")
        THEN StoreFailure(ctx, StatusInternalServerError, "internal server error")
        ELSE IF OwnerDenied(farm, user[1])
        THEN ReplyOnly(ctx, StatusForbidden, "access denied: employee does not belong to user's farm")
        ELSE IF LinkRequested(ctx.req.body.UserID) /\ Fails(ctx, "User.GetByEmail(linked)")
        THEN StoreFailure(ctx, StatusBadRequest, "linked user not found")
        ELSE IF LinkRequested(ctx.req.body.UserID) /\ LinkedUser(ctx.req.body.UserID) = << >>
        THEN ReplyOnly(ctx, StatusBadRequest, "linked user not found")
        ELSE IF Fails(ctx, "Employee.Update")
        THEN StoreFailure(ctx, StatusInternalServerError, "failed to update employee")
        ELSE /\ employees' = SaveRow(employees, MergeEmployee(employee[1], ctx.req.body))
             /\ last' = [Reply(ctx, StatusOK, "Employee updated successfully") EXCEPT !.ids = {employee[1].EmployeeID}]
             /\ UNCHANGED <<users, farms, crops, livestocks, issued, otpLog, now, env, inflight>>

DeleteEmployeeHandler(ctx) ==
    LET employeeID == ctx.req.id
        userEmail == ctx.hdr.XUserEmail
        employee == GetByEmployeeID(employeeID)
        user == GetByEmail(userEmail)
        farm == GetByFarmID(employee[1].FarmID)
    IN  IF employeeID = << >>
        THEN ReplyOnly(ctx, StatusBadRequest, "employee ID is required")
        ELSE IF userEmail = ""
        THEN ReplyOnly(ctx, StatusUnauthorized, "user not authenticated")
        ELSE IF Fails(ctx, "Employee.GetByEmployeeID")
        THEN StoreFailure(ctx, StatusInternalServerError, "internal server error")
        ELSE IF employee = << >>
        THEN ReplyOnly(ctx, StatusNotFound, "employee not found")
        ELSE IF Fails(ctx, "User.GetByEmail")
        THEN StoreFailure(ctx, StatusInternalServerError, "internal server error")
        ELSE IF user = << >>
        THEN ReplyOnly(ctx, StatusNotFound, "user not found")
        ELSE IF Fails(ctx, "Farm.GetByFarmID")
        THEN StoreFailure(ctx, StatusInternalServerError, "internal server error")
        ELSE IF OwnerDenied(farm, user[1])
        THEN ReplyOnly(ctx, StatusForbidden, "access denied: employee does not belong to user's farm")
        ELSE IF Fails(ctx, "Employee.DeleteByID")
        THEN StoreFailure(ctx, StatusInternalServerError, "failed to delete employee")
        ELSE /\ employees' = SoftDelete(employees, employee[1].ID)
             /\ last' = Reply(ctx, StatusOK, "Employee deleted successfully")
             /\ UNCHANGED <<users, farms, crops, livestocks, issued, otpLog, now, env, inflight>>

----------------------------------------------------------------------------
(* Router and middleware *)

\* routes(): the handler each route invokes and whether app.JWTMiddleware wraps it.
routes ==
    [SignupHandler |-> [method |-> "POST", pattern |-> "/api/auth/signup", protected |-> FALSE],
     LoginHandler |-> [method |-> "POST", pattern |-> "/api/auth/login", protected |-> FALSE],
     ForgotPasswordHandler |->
        [method |-> "POST", pattern |-> "/api/auth/forgot-password", protected |-> FALSE],
     ResetPasswordHandler |->
        [method |-> "POST", pattern |-> "/api/auth/reset-password", protected |-> FALSE],
     RefreshTokenHandler |->
        [method |-> "POST", pattern |-> "/api/auth/refresh-token", protected |-> TRUE],
     CreateFarmHandler |-> [method |-> "POST", pattern |-> "/api/farms/", protected |-> TRUE],
     GetFarmsHandler |-> [method |-> "GET", pattern |-> "/api/farms/", protected |-> TRUE],
     GetFarmHandler |-> [method |-> "GET", pattern |-> "/api/farms/{id}", protected |-> TRUE],
     UpdateFarmHandler |-> [method |-> "PUT", pattern |-> "/api/farms/{id}", protected |-> TRUE],
     DeleteFarmHandler |->
        [method |-> "DELETE", pattern |-> "/api/farms/{id}", protected |-> TRUE],
     CreateCropHandler |-> [method |-> "POST", pattern |-> "/api/crops/", protected |-> TRUE],
     GetCropsHandler |-> [method |-> "GET", pattern |-> "/api/crops/", protected |-> TRUE],
     GetCropHandler |-> [method |-> "GET", pattern |-> "/api/crops/{id}", protected |-> TRUE],
     UpdateCropHandler |-> [method |-> "PUT", pattern |-> "/api/crops/{id}", protected |-> TRUE],
     DeleteCropHandler |->
        [method |-> "DELETE", pattern |-> "/api/crops/{id}", protected |-> TRUE],
     CreateLivestockHandler |->
        [method |-> "POST", pattern |-> "/api/livestock/", protected |-> TRUE],
     GetLivestocksHandler |->
        [method |-> "GET", pattern |-> "/api/livestock/", protected |-> TRUE],
     UpdateLivestockHandler |->
        [method |-> "PUT", pattern |-> "/api/livestock/", protected |-> TRUE],
     DeleteLivestockHandler |->
        [method |-> "DELETE", pattern |-> "/api/livestock/", protected |-> TRUE],
     CreateEmployeeHandler |->
        [method |-> "POST", pattern |-> "/api/employees/", protected |-> TRUE],
     GetEmployeesHandler |->
        [method |-> "GET", pattern |-> "/api/employees/", protected |-> TRUE],
     GetEmployeeHandler |->
        [method |-> "GET", pattern |-> "/api/employees/{id}", protected |-> TRUE],
     UpdateEmployeeHandler |->
        [method |-> "PUT", pattern |-> "/api/employees/{id}", protected |-> TRUE],
     DeleteEmployeeHandler |->
        [method |-> "DELETE", pattern |-> "/api/employees/{id}", protected |-> TRUE]]

\* next.ServeHTTP(w, r): the handler function registered under that name.
Invoke(ctx) ==
    CASE ctx.op = "SignupHandler" -> SignupHandler(ctx)
      [] ctx.op = "LoginHandler" -> LoginHandler(ctx)
      [] ctx.op = "ForgotPasswordHandler" -> ForgotPasswordHandler(ctx)
      [] ctx.op = "ResetPasswordHandler" -> ResetPasswordHandler(ctx)
      [] ctx.op = "RefreshTokenHandler" -> RefreshTokenHandler(ctx)
      [] ctx.op = "CreateFarmHandler" -> CreateFarmHandler(ctx)
      [] ctx.op = "GetFarmsHandler" -> GetFarmsHandler(ctx)
      [] ctx.op = "GetFarmHandler" -> GetFarmHandler(ctx)
      [] ctx.op = "UpdateFarmHandler" -> UpdateFarmHandler(ctx)
      [] ctx.op = "DeleteFarmHandler" -> DeleteFarmHandler(ctx)
      [] ctx.op = "CreateCropHandler" -> CreateCropHandler(ctx)
      [] ctx.op = "GetCropsHandler" -> GetCropsHandler(ctx)
      [] ctx.op = "GetCropHandler" -> GetCropHandler(ctx)
      [] ctx.op = "UpdateCropHandler" -> UpdateCropHandler(ctx)
      [] ctx.op = "DeleteCropHandler" -> DeleteCropHandler(ctx)
      [] ctx.op = "CreateLivestockHandler" -> CreateLivestockHandler(ctx)
      [] ctx.op = "GetLivestocksHandler" -> GetLivestocksHandler(ctx)
      [] ctx.op = "UpdateLivestockHandler" -> UpdateLivestockHandler(ctx)
      [] ctx.op = "DeleteLivestockHandler" -> DeleteLivestockHandler(ctx)
      [] ctx.op = "CreateEmployeeHandler" -> CreateEmployeeHandler(ctx)
      [] ctx.op = "GetEmployeesHandler" -> GetEmployeesHandler(ctx)
      [] ctx.op = "GetEmployeeHandler" -> GetEmployeeHandler(ctx)
      [] ctx.op = "UpdateEmployeeHandler" -> UpdateEmployeeHandler(ctx)
      [] ctx.op = "DeleteEmployeeHandler" -> DeleteEmployeeHandler(ctx)

\* The 401 of JWTMiddleware: next is not called.
Unauthorized(op, req, msg) ==
    /\ last' = [op |-> op, req |-> req, hdr |-> req.hdr, ran |-> FALSE, at |-> now,
                status |-> StatusUnauthorized, msg |-> msg, token |-> << >>, ids |-> {},
                failed |-> FALSE]
    /\ UNCHANGED <<users, farms, crops, livestocks, employees, issued, otpLog, now, env, inflight>>

\* The X-User-* headers JWTMiddleware sets from the validated claims.
ClaimHeaders(claims) ==
    [XUserID |-> Itoa(claims.UserID), XUserEmail |-> claims.Email, XUserRole |-> claims.Role]

\* A middleware that reads the claims of any well-formed bearer token without
\* validating it.
JWTMiddlewareUnverified(op, req) ==
    LET authHeader == req.auth
        tokenString == SubSeq(authHeader, BearerPrefixLen + 1, Len(authHeader))
    IN  IF authHeader = << >>
        THEN Unauthorized(op, req, "authorization header required")
        ELSE IF ~(Len(authHeader) > BearerPrefixLen
                  /\ SubSeq(authHeader, 1, BearerPrefixLen) = BearerPrefix)
        THEN Unauthorized(op, req, "invalid authorization header format")
        ELSE IF ~(Len(tokenString) = 1 /\ tokenString[1].wellFormed)
        THEN Unauthorized(op, req, "invalid or expired token")
        ELSE Invoke([op |-> op, req |-> req, hdr |-> ClaimHeaders(tokenString[1].claims)])

\* r.Header.Add instead of Set: values the request arrived with stay first, and
\* Header.Get returns the first value.
SetHeadersAdding(hdr, claims) ==
    [XUserID |-> IF hdr.XUserID # << >> THEN hdr.XUserID ELSE ClaimHeaders(claims).XUserID,
     XUserEmail |-> IF hdr.XUserEmail # "" THEN hdr.XUserEmail
                    ELSE ClaimHeaders(claims).XUserEmail,
     XUserRole |-> IF hdr.XUserRole # "" THEN hdr.XUserRole ELSE ClaimHeaders(claims).XUserRole]

\* r.Header.Set on the three X-User-* keys: each replaces whatever values the
\* request arrived with.
SetHeaders(hdr, claims) ==
    [hdr EXCEPT !.XUserID = ClaimHeaders(claims).XUserID,
                !.XUserEmail = ClaimHeaders(claims).XUserEmail,
                !.XUserRole = ClaimHeaders(claims).XUserRole]

JWTMiddleware(op, req) ==
    LET authHeader == req.auth
        tokenString == SubSeq(authHeader, BearerPrefixLen + 1, Len(authHeader))
        v == ValidateJWT(tokenString)
    IN  IF authHeader = << >>
        THEN Unauthorized(op, req, "authorization header required")
        ELSE IF ~(Len(authHeader) > BearerPrefixLen
                  /\ SubSeq(authHeader, 1, BearerPrefixLen) = BearerPrefix)
        THEN Unauthorized(op, req, "invalid authorization header format")
        ELSE IF ~v.ok
        THEN Unauthorized(op, req, "invalid or expired token")
        ELSE Invoke([op |-> op, req |-> req, hdr |-> SetHeaders(req.hdr, v.claims[1])])

\* One request served by the router; its response is in flight afterwards.
Serve(op, req) ==
    IF routes[op].protected
    THEN JWTMiddleware(op, req)
    ELSE Invoke([op |-> op, req |-> req, hdr |-> req.hdr])

\* The response reaches the client.
Respond ==
    /\ last.op # ""
    /\ last' = Idle
    /\ UNCHANGED <<users, farms, crops, livestocks, employees, issued, otpLog, now, env, inflight>>

----------------------------------------------------------------------------
(* Data-layer operations no route calls, and the clock *)

\* UserRepo.Update on a row read earlier with its Active flag changed
\* (user.TempPassword is empty, so the stored hash is kept).
UserRepoUpdate ==
    \E i \in 1..Len(users), active \in BOOLEAN :
        /\ last = Idle
        /\ ~users[i].Deleted
        /\ users[i].Active # active
        /\ users' = SaveRow(users, [users[i] EXCEPT !.Active = active])
        /\ UNCHANGED <<farms, crops, livestocks, employees, issued, otpLog, now, env, last, inflight>>


\* UserRepo.Update on a row read earlier with its Role changed.
UserRepoUpdateRole ==
    \E i \in 1..Len(users), role \in {"Farmer", "Admin"} :
        /\ last = Idle
        /\ ~users[i].Deleted
        /\ users[i].Role # role
        /\ users' = SaveRow(users, [users[i] EXCEPT !.Role = role])
        /\ UNCHANGED <<farms, crops, livestocks, employees, issued, otpLog, now, env, last, inflight>>

\* UserRepo.DeleteByID
UserRepoDeleteByID ==
    \E i \in 1..Len(users) :
        /\ last = Idle
        /\ ~users[i].Deleted
        /\ users' = SoftDelete(users, users[i].ID)
        /\ UNCHANGED <<farms, crops, livestocks, employees, issued, otpLog, now, env, last, inflight>>

\* time.Now() advances between two requests.
TickMinute ==
    /\ last = Idle
    /\ now + 1 <= MaxMinutes
    /\ now' = now + 1
    /\ UNCHANGED <<users, farms, crops, livestocks, employees, issued, otpLog, env, last, inflight>>

TickHour ==
    /\ last = Idle
    /\ (now % MinutesPerDay) + MinutesPerHour <= MaxHours * MinutesPerHour
    /\ now' = now + MinutesPerHour
    /\ UNCHANGED <<users, farms, crops, livestocks, employees, issued, otpLog, env, last, inflight>>

TickDay ==
    /\ last = Idle
    /\ now + MinutesPerDay < (MaxDays + 1) * MinutesPerDay
    /\ now' = now + MinutesPerDay
    /\ UNCHANGED <<users, farms, crops, livestocks, employees, issued, otpLog, env, last, inflight>>

----------------------------------------------------------------------------
(* Clients: the requests they send *)

AttackerKey == "attacker-key"

\* Tokens the clients hold.
Tokens == {e.token : e \in issued}

Forge(alg, key, claims) ==
    [wellFormed |-> TRUE, alg |-> alg, claims |-> claims, sig |-> Sign(alg, key, claims)]

\* A string that is not three base64 segments.
Garbage == [wellFormed |-> FALSE, alg |-> "", claims |-> << >>, sig |-> << >>]

BasicAuth == <<"B", "a", "s", "i", "c", " ", "d", "X", "g", "=">>
LowerBearer(tokenString) == <<"b", "e", "a", "r", "e", "r", " ">> \o tokenString

\* Authorization headers that are not of the form "Bearer <token>".
MalformedAuths == {BasicAuth, BearerPrefix} \cup {LowerBearer(<<t>>) : t \in Tokens}

\* Tokens re-signed by someone who does not hold the secret.
Resigned == {Forge(t.alg, AttackerKey, t.claims) : t \in Tokens}

GoodAuths == {Bearer(<<t>>) : t \in Tokens}
BadAuths == {NoAuth} \cup MalformedAuths \cup {Bearer(<<t>>) : t \in Resigned \cup {Garbage}}

FarmIDs == {NewUUID("farm", i) : i \in 0..MaxFarms}
RecordIDs(table) == {NewUUID(table, i) : i \in 0..MaxRecords}

SignupBodies(emails, passwords, roleInputs) ==
    {[FirstName |-> f, LastName |-> "Lee", Email |-> e, Password |-> p, Role |-> r] :
        f \in {"Ann"}, e \in emails, p \in passwords, r \in roleInputs}
    \cup {[FirstName |-> "", LastName |-> "Lee", Email |-> e, Password |-> "pw1", Role |-> ""] :
            e \in emails}

LoginBodies(passwords) ==
    {[Email |-> e, Password |-> p] : e \in Emails, p \in passwords \cup {""}}

ForgotBodies == {[Email |-> e] : e \in Emails \cup {""}}

ResetBodies(passwords) ==
    {[Email |-> e, OTP |-> c, NewPassword |-> p] :
        e \in Emails, c \in OTPCodes \cup {<< >>}, p \in passwords}

FarmBody(name, size) ==
    [Name |-> name, Description |-> "", Location |-> "Gulu", Size |-> size,
     FarmType |-> "", Status |-> ""]
FarmCreateBodies == {FarmBody("North", 5), FarmBody("", 5), FarmBody("North", 0)}
FarmUpdateBodies ==
    {[Name |-> "South", Description |-> "", Location |-> "", Size |-> 0,
      FarmType |-> "", Status |-> "Inactive"]}

CropBody(name, quantity, status) ==
    [Name |-> name, PlantingDate |-> << >>, HarvestDate |-> << >>, Quantity |-> quantity,
     Status |-> status, Notes |-> ""]
CropCreateBodies == {CropBody("Maize", 3, ""), CropBody("", 3, "")}
CropUpdateBodies == {CropBody("", 0, "Harvested")}

LivestockBody(type, count, health) ==
    [Type |-> type, Count |-> count, AcquisitionDate |-> << >>, HealthStatus |-> health,
     Notes |-> ""]
LivestockCreateBodies == {LivestockBody("Goat", 4, ""), LivestockBody("Goat", 0, "")}
LivestockUpdateBodies == {LivestockBody("", 0, "Sick")}

EmployeeBody(link, first, position) ==
    [UserID |-> link, FirstName |-> first, LastName |-> "Okot", Position |-> position,
     Salary |-> 0, HireDate |-> << >>, ContactInfo |-> "", Status |-> ""]
EmployeeCreateBodies ==
    {EmployeeBody(<< >>, "Sam", "Herder"), EmployeeBody(<< >>, "", "Herder"),
     EmployeeBody(<<"b@x.com">>, "Sam", "Herder")}
EmployeeUpdateBodies == {EmployeeBody(<< >>, "", "Manager")}

\* The requests sent to a protected route: every combination of the inputs
\* under a held token, and one request under each unusable header (the
\* middleware reads nothing but the Authorization header).
ProtectedRequests(ids, farmIds, bodies) ==
    {Req(auth, id, farmId, body) :
        auth \in GoodAuths, id \in ids, farmId \in farmIds, body \in bodies}
    \cup {Req(auth,
              CHOOSE i \in ids : \A j \in ids : j = << >> \/ i # << >>,
              CHOOSE f \in farmIds : \A g \in farmIds : g = << >> \/ f # << >>,
              CHOOSE body \in bodies : TRUE) : auth \in BadAuths}

PublicRequests(bodies) == {Req(NoAuth, << >>, << >>, body) : body \in bodies}

Nil == {<< >>}

----------------------------------------------------------------------------
(* The service: accounts, sessions and the farm records *)

DefaultEnv == [JWT_SECRET |-> "", JWT_EXPIRATION_HOURS |-> << >>]

Init ==
    /\ users = << >>
    /\ farms = << >>
    /\ crops = << >>
    /\ livestocks = << >>
    /\ employees = << >>
    /\ issued = {}
    /\ otpLog = [e \in Emails |-> ZeroTime]
    /\ now = 0
    /\ env = DefaultEnv
    /\ last = Idle
    /\ inflight = {}

Signup ==
    /\ last.op = ""
    /\ \E req \in PublicRequests(SignupBodies(Emails, {"pw1"}, {""})) :
            Serve("SignupHandler", req)

Login ==
    /\ last.op = ""
    /\ \E req \in PublicRequests(LoginBodies({"pw1"})) :
            Serve("LoginHandler", req)

RefreshToken ==
    /\ last.op = ""
    /\ \E req \in ProtectedRequests(Nil, Nil, {NoBody}) :
            Serve("RefreshTokenHandler", req)

CreateFarm ==
    /\ last.op = ""
    /\ \E req \in ProtectedRequests(Nil, Nil, FarmCreateBodies) :
            Serve("CreateFarmHandler", req)

GetFarms ==
    /\ last.op = ""
    /\ \E req \in ProtectedRequests(Nil, Nil, {NoBody}) :
            Serve("GetFarmsHandler", req)

GetFarm ==
    /\ last.op = ""
    /\ \E req \in ProtectedRequests(FarmIDs \cup Nil, Nil, {NoBody}) :
            Serve("GetFarmHandler", req)

UpdateFarm ==
    /\ last.op = ""
    /\ \E req \in ProtectedRequests(FarmIDs \cup Nil, Nil, FarmUpdateBodies) :
            Serve("UpdateFarmHandler", req)

DeleteFarm ==
    /\ last.op = ""
    /\ \E req \in ProtectedRequests(FarmIDs \cup Nil, Nil, {NoBody}) :
            Serve("DeleteFarmHandler", req)

CreateCrop ==
    /\ last.op = ""
    /\ \E req \in ProtectedRequests(Nil, FarmIDs \cup Nil, CropCreateBodies) :
            Serve("CreateCropHandler", req)

GetCrops ==
    /\ last.op = ""
    /\ \E req \in ProtectedRequests(Nil, FarmIDs \cup Nil, {NoBody}) :
            Serve("GetCropsHandler", req)

GetCrop ==
    /\ last.op = ""
    /\ \E req \in ProtectedRequests(RecordIDs("crop") \cup Nil, Nil, {NoBody}) :
            Serve("GetCropHandler", req)

UpdateCrop ==
    /\ last.op = ""
    /\ \E req \in ProtectedRequests(RecordIDs("crop") \cup Nil, Nil, CropUpdateBodies) :
            Serve("UpdateCropHandler", req)

DeleteCrop ==
    /\ last.op = ""
    /\ \E req \in ProtectedRequests(RecordIDs("crop") \cup Nil, Nil, {NoBody}) :
            Serve("DeleteCropHandler", req)

CreateLivestock ==
    /\ last.op = ""
    /\ \E req \in ProtectedRequests(Nil, FarmIDs \cup Nil, LivestockCreateBodies) :
            Serve("CreateLivestockHandler", req)

GetLivestocks ==
    /\ last.op = ""
    /\ \E req \in ProtectedRequests(Nil, FarmIDs \cup Nil, {NoBody}) :
            Serve("GetLivestocksHandler", req)

UpdateLivestock ==
    /\ last.op = ""
    /\ \E req \in ProtectedRequests(RecordIDs("livestock") \cup Nil, Nil, LivestockUpdateBodies) :
            Serve("UpdateLivestockHandler", req)

DeleteLivestock ==
    /\ last.op = ""
    /\ \E req \in ProtectedRequests(RecordIDs("livestock") \cup Nil, Nil, {NoBody}) :
            Serve("DeleteLivestockHandler", req)

CreateEmployee ==
    /\ last.op = ""
    /\ \E req \in ProtectedRequests(Nil, FarmIDs \cup Nil, EmployeeCreateBodies) :
            Serve("CreateEmployeeHandler", req)

GetEmployees ==
    /\ last.op = ""
    /\ \E req \in ProtectedRequests(Nil, FarmIDs \cup Nil, {NoBody}) :
            Serve("GetEmployeesHandler", req)

GetEmployee ==
    /\ last.op = ""
    /\ \E req \in ProtectedRequests(RecordIDs("employee") \cup Nil, Nil, {NoBody}) :
            Serve("GetEmployeeHandler", req)

UpdateEmployee ==
    /\ last.op = ""
    /\ \E req \in ProtectedRequests(RecordIDs("employee") \cup Nil, Nil, EmployeeUpdateBodies) :
            Serve("UpdateEmployeeHandler", req)

DeleteEmployee ==
    /\ last.op = ""
    /\ \E req \in ProtectedRequests(RecordIDs("employee") \cup Nil, Nil, {NoBody}) :
            Serve("DeleteEmployeeHandler", req)

Next ==
    \/ Respond
    \/ Signup \/ Login \/ RefreshToken
    \/ CreateFarm \/ GetFarms \/ GetFarm \/ UpdateFarm \/ DeleteFarm
    \/ CreateCrop \/ GetCrops \/ GetCrop \/ UpdateCrop \/ DeleteCrop
    \/ CreateLivestock \/ GetLivestocks \/ UpdateLivestock \/ DeleteLivestock
    \/ CreateEmployee \/ GetEmployees \/ GetEmployee \/ UpdateEmployee \/ DeleteEmployee

Spec == Init /\ [][Next]_vars

----------------------------------------------------------------------------
(* The account service: signup, login, password reset, account administration *)

SignupAccount ==
    /\ last.op = ""
    /\ \E req \in PublicRequests(SignupBodies(Emails, Passwords, {""})) :
            Serve("SignupHandler", req)

LoginAccount ==
    /\ last.op = ""
    /\ \E req \in PublicRequests(LoginBodies(Passwords)) :
            Serve("LoginHandler", req)

ForgotPassword ==
    /\ last.op = ""
    /\ \E req \in PublicRequests(ForgotBodies) :
            Serve("ForgotPasswordHandler", req)

ResetPassword ==
    /\ last.op = ""
    /\ \E req \in PublicRequests(ResetBodies({"pw2"})) :
            Serve("ResetPasswordHandler", req)

NextLogin ==
    \/ Respond
    \/ SignupAccount \/ LoginAccount \/ ForgotPassword \/ ResetPassword
    \/ UserRepoUpdate \/ UserRepoDeleteByID

SpecLogin == Init /\ [][NextLogin]_vars

----------------------------------------------------------------------------
(* Password reset over time *)

SignupFirst ==
    /\ last.op = ""
    /\ \E req \in PublicRequests(SignupBodies({"a@x.com"}, {"pw1"}, {""})) :
            Serve("SignupHandler", req)

NextOTP ==
    \/ Respond
    \/ SignupFirst \/ ForgotPassword \/ ResetPassword
    \/ TickMinute

SpecOTP == Init /\ [][NextOTP]_vars

----------------------------------------------------------------------------
(* The token service under the configurations of the environment, over time *)

Envs ==
    {[JWT_SECRET |-> "", JWT_EXPIRATION_HOURS |-> << >>],
     [JWT_SECRET |-> "prod-secret", JWT_EXPIRATION_HOURS |-> <<"2">>],
     [JWT_SECRET |-> "prod-secret", JWT_EXPIRATION_HOURS |-> <<"1", "2", "h">>],
     [JWT_SECRET |-> "", JWT_EXPIRATION_HOURS |-> <<"-", "1">>],
     [JWT_SECRET |-> "prod-secret",
      JWT_EXPIRATION_HOURS |-> <<"-", "3", "0", "0", "0", "0", "0", "0">>]}

InitToken ==
    /\ users = << >>
    /\ farms = << >>
    /\ crops = << >>
    /\ livestocks = << >>
    /\ employees = << >>
    /\ issued = {}
    /\ otpLog = [e \in Emails |-> ZeroTime]
    /\ now = 0
    /\ env \in Envs
    /\ last = Idle
    /\ inflight = {}

\* Claims an outsider writes for itself.
OutsiderClaims ==
    [UserID |-> 1, Email |-> "a@x.com", Role |-> "Admin",
     ExpiresAt |-> (MaxDays + 2) * MinutesPerDay, IssuedAt |-> 0, NotBefore |-> 0,
     Issuer |-> "farm4u", Subject |-> <<"1">>]

\* Tokens made without the configured secret: signed under another key, signed
\* with a method outside the HMAC family, or altered after signing.
ForgedTokens ==
    {Forge("HS256", AttackerKey, c) : c \in {t.claims : t \in Tokens} \cup {OutsiderClaims}}
    \cup {Forge("HS256", k, OutsiderClaims) : k \in {FallbackSecret} \ {JwtSecret}}
    \cup {Forge(alg, JwtSecret, OutsiderClaims) : alg \in {"none", "RS256"}}
    \cup {[t EXCEPT !.claims.ExpiresAt = (MaxDays + 2) * MinutesPerDay] : t \in Tokens}
    \cup {Garbage}

TokenRequests ==
    {Req(auth, << >>, << >>, NoBody) :
        auth \in {NoAuth} \cup {Bearer(<<t>>) : t \in Tokens \cup ForgedTokens}}

SignupWithRole ==
    /\ last.op = ""
    /\ \E req \in PublicRequests(SignupBodies({"a@x.com"}, {"pw1"}, RoleInputs)) :
            Serve("SignupHandler", req)

LoginFirst ==
    /\ last.op = ""
    /\ \E req \in PublicRequests(LoginBodies({"pw1"})) :
            Serve("LoginHandler", req)

RefreshTokenWith ==
    /\ last.op = ""
    /\ \E req \in TokenRequests :
            Serve("RefreshTokenHandler", req)

GetFarmsWith ==
    /\ last.op = ""
    /\ \E req \in TokenRequests :
            Serve("GetFarmsHandler", req)

NextToken ==
    \/ Respond
    \/ SignupWithRole \/ LoginFirst \/ RefreshTokenWith \/ GetFarmsWith
    \/ TickHour \/ TickDay

SpecToken == InitToken /\ [][NextToken]_vars


----------------------------------------------------------------------------
(* Concurrent signups: the handler's two store calls as separate steps *)

\* SignupHandler up to and including its duplicate check, on one connection.
SignupCheck ==
    \E conn \in 1..MaxInflight, req \in PublicRequests(SignupBodies(Emails, Passwords, {""})) :
        LET ctx == [op |-> "SignupHandler", req |-> req, hdr |-> req.hdr]
            b == req.body
        IN  /\ \A c \in inflight : c.conn # conn
            /\ IF b.FirstName = "" \/ b.LastName = "" \/ b.Email = "" \/ b.Password = ""
               THEN ReplyOnly(ctx, StatusBadRequest, "missing required fields")
               ELSE IF GetByEmail(b.Email) # << >>
               THEN ReplyOnly(ctx, StatusConflict, "user with this email already exists")
               ELSE /\ inflight' = inflight \cup {[conn |-> conn, ctx |-> ctx]}
                    /\ UNCHANGED <<users, farms, crops, livestocks, employees, issued,
                                   otpLog, now, env, last>>

\* The rest of SignupHandler: UserRepo.Insert and the response.
SignupInsert ==
    \E c \in inflight :
        /\ inflight' = inflight \ {c}
        /\ IF PasswordTooLong(c.ctx.req.body.Password) \/ EmailIndexed(c.ctx.req.body.Email)
           THEN /\ last' = [Reply(c.ctx, StatusInternalServerError, "failed to create user")
                              EXCEPT !.failed = TRUE]
                /\ UNCHANGED <<users, farms, crops, livestocks, employees, issued,
                               otpLog, now, env>>
           ELSE /\ users' = Append(users, NewUser(c.ctx.req.body))
                /\ last' = Reply(c.ctx, StatusCreated, "User created successfully")
                /\ UNCHANGED <<farms, crops, livestocks, employees, issued, otpLog, now, env>>

NextSignup ==
    \/ Respond
    \/ SignupCheck \/ SignupInsert
    \/ UserRepoDeleteByID

SpecSignup == Init /\ [][NextSignup]_vars


----------------------------------------------------------------------------
(* Sessions: tokens held by clients while the account changes underneath *)

NextSession ==
    \/ Respond
    \/ SignupFirst \/ LoginAccount \/ RefreshToken \/ GetFarms
    \/ ForgotPassword \/ ResetPassword
    \/ UserRepoUpdate \/ UserRepoUpdateRole \/ UserRepoDeleteByID
    \/ TickHour

SpecSession == Init /\ [][NextSession]_vars


----------------------------------------------------------------------------
(* Requests under a token that outlives its account *)

NextOrphan ==
    \/ Respond
    \/ SignupFirst \/ Login
    \/ CreateFarm \/ GetFarm \/ UpdateFarm \/ DeleteFarm
    \/ CreateCrop \/ GetCrop \/ UpdateCrop \/ DeleteCrop
    \/ CreateLivestock \/ UpdateLivestock \/ DeleteLivestock
    \/ CreateEmployee \/ GetEmployee \/ UpdateEmployee \/ DeleteEmployee
    \/ UserRepoDeleteByID

SpecOrphan == Init /\ [][NextOrphan]_vars


----------------------------------------------------------------------------
(* Requests handled while a store call fails *)

\* The store calls each handler makes, in the order it makes them.
StoreCallsOf(op) ==
    CASE op = "SignupHandler" -> {"User.GetByEmail", "User.Insert"}
      [] op = "LoginHandler" -> {"User.GetByEmail"}
      [] op = "ForgotPasswordHandler" -> {"User.GetByEmail", "User.GenerateAndSaveOTP"}
      [] op = "ResetPasswordHandler" -> {"User.ResetPasswordWithOTP"}
      [] op = "RefreshTokenHandler" -> {"User.GetOne"}
      [] op = "CreateFarmHandler" -> {"User.GetByEmail", "Farm.Insert"}
      [] op = "GetFarmHandler" -> {"Farm.GetByFarmID", "User.GetByEmail"}
      [] op = "GetFarmsHandler" -> {"User.GetByEmail", "Farm.GetByUserID"}
      [] op = "UpdateFarmHandler" -> {"Farm.GetByFarmID", "User.GetByEmail", "Farm.Update"}
      [] op = "DeleteFarmHandler" -> {"Farm.GetByFarmID", "User.GetByEmail", "Farm.DeleteByID"}
      [] op = "CreateCropHandler" -> {"User.GetByEmail", "Farm.GetByFarmID", "Crop.Insert"}
      [] op = "GetCropHandler" -> {"Crop.GetByCropID", "User.GetByEmail", "Farm.GetByFarmID"}
      [] op = "GetCropsHandler" -> {"User.GetByEmail", "Farm.GetByFarmID", "Crop.GetByFarmID"}
      [] op = "UpdateCropHandler" ->
            {"Crop.GetByCropID", "User.GetByEmail", "Farm.GetByFarmID", "Crop.Update"}
      [] op = "DeleteCropHandler" ->
            {"Crop.GetByCropID", "User.GetByEmail", "Farm.GetByFarmID", "Crop.DeleteByID"}
      [] op = "CreateLivestockHandler" ->
            {"User.GetByEmail", "Farm.GetByFarmID", "Livestock.Insert"}
      [] op = "GetLivestocksHandler" ->
            {"User.GetByEmail", "Farm.GetByFarmID", "Livestock.GetByFarmID"}
      [] op = "UpdateLivestockHandler" ->
            {"Livestock.GetByLivestockID", "User.GetByEmail", "Farm.GetByFarmID",
             "Livestock.Update"}
      [] op = "DeleteLivestockHandler" ->
            {"Livestock.GetByLivestockID", "User.GetByEmail", "Farm.GetByFarmID",
             "Livestock.DeleteByID"}
      [] op = "CreateEmployeeHandler" ->
            {"User.GetByEmail", "Farm.GetByFarmID", "User.GetByEmail(linked)",
             "Employee.Insert"}
      [] op = "GetEmployeeHandler" ->
            {"Employee.GetByEmployeeID", "User.GetByEmail", "Farm.GetByFarmID"}
      [] op = "GetEmployeesHandler" ->
            {"User.GetByEmail", "Farm.GetByFarmID", "Employee.GetByFarmID"}
      [] op = "UpdateEmployeeHandler" ->
            {"Employee.GetByEmployeeID", "User.GetByEmail", "Farm.GetByFarmID",
             "User.GetByEmail(linked)", "Employee.Update"}
      [] op = "DeleteEmployeeHandler" ->
            {"Employee.GetByEmployeeID", "User.GetByEmail", "Farm.GetByFarmID",
             "Employee.DeleteByID"}

\* Requests under a held token that name a live record of the table (or,
\* for byFarm, a live farm) and carry one of the bodies.
Addressed(ids, farmIds, bodies) ==
    {Req(auth, id, farmId, body) :
        auth \in GoodAuths, id \in ids, farmId \in farmIds, body \in bodies}

LiveFarmIDs == {f.FarmID : f \in {g \in {farms[i] : i \in 1..Len(farms)} : ~g.Deleted}}
LiveCropIDs == {c.CropID : c \in {d \in {crops[i] : i \in 1..Len(crops)} : ~d.Deleted}}
LiveLivestockIDs ==
    {l.LivestockID : l \in {k \in {livestocks[i] : i \in 1..Len(livestocks)} : ~k.Deleted}}
LiveEmployeeIDs ==
    {e.EmployeeID : e \in {d \in {employees[i] : i \in 1..Len(employees)} : ~d.Deleted}}

\* The requests sent to each route while a store call fails.
RequestsOnFault(op) ==
    CASE op = "SignupHandler" -> PublicRequests(SignupBodies(Emails, {"pw1"}, {""}))
      [] op = "LoginHandler" -> PublicRequests(LoginBodies({"pw1"}))
      [] op = "ForgotPasswordHandler" -> PublicRequests(ForgotBodies)
      [] op = "ResetPasswordHandler" -> PublicRequests(ResetBodies({"pw2"}))
      [] op \in {"RefreshTokenHandler", "GetFarmsHandler"} -> Addressed(Nil, Nil, {NoBody})
      [] op = "CreateFarmHandler" -> Addressed(Nil, Nil, {FarmBody("North", 5)})
      [] op \in {"GetFarmHandler", "DeleteFarmHandler"} -> Addressed(LiveFarmIDs, Nil, {NoBody})
      [] op = "UpdateFarmHandler" -> Addressed(LiveFarmIDs, Nil, FarmUpdateBodies)
      [] op = "CreateCropHandler" -> Addressed(Nil, LiveFarmIDs, {CropBody("Maize", 3, "")})
      [] op = "CreateLivestockHandler" ->
            Addressed(Nil, LiveFarmIDs, {LivestockBody("Goat", 4, "")})
      [] op = "CreateEmployeeHandler" ->
            Addressed(Nil, LiveFarmIDs, {EmployeeBody(<<"b@x.com">>, "Sam", "Herder")})
      [] op \in {"GetCropsHandler", "GetLivestocksHandler", "GetEmployeesHandler"} ->
            Addressed(Nil, LiveFarmIDs, {NoBody})
      [] op \in {"GetCropHandler", "DeleteCropHandler"} -> Addressed(LiveCropIDs, Nil, {NoBody})
      [] op = "UpdateCropHandler" -> Addressed(LiveCropIDs, Nil, CropUpdateBodies)
      [] op = "UpdateLivestockHandler" -> Addressed(LiveLivestockIDs, Nil, LivestockUpdateBodies)
      [] op = "DeleteLivestockHandler" -> Addressed(LiveLivestockIDs, Nil, {NoBody})
      [] op \in {"GetEmployeeHandler", "DeleteEmployeeHandler"} ->
            Addressed(LiveEmployeeIDs, Nil, {NoBody})
      [] op = "UpdateEmployeeHandler" ->
            Addressed(LiveEmployeeIDs, Nil, {EmployeeBody(<<"b@x.com">>, "", "Manager")})

ServeOnFault(ops) ==
    \E op \in ops :
        \E req \in RequestsOnFault(op), site \in StoreCallsOf(op) :
            Serve(op, Faulty(req, site))

AccountRequestOnFault ==
    /\ last.op = ""
    /\ ServeOnFault({"SignupHandler", "LoginHandler", "ForgotPasswordHandler",
                     "ResetPasswordHandler", "RefreshTokenHandler"})

FarmRequestOnFault ==
    /\ last.op = ""
    /\ ServeOnFault({"CreateFarmHandler", "GetFarmHandler", "GetFarmsHandler",
                     "UpdateFarmHandler", "DeleteFarmHandler"})

CropRequestOnFault ==
    /\ last.op = ""
    /\ ServeOnFault({"CreateCropHandler", "GetCropHandler", "GetCropsHandler",
                     "UpdateCropHandler", "DeleteCropHandler"})

LivestockRequestOnFault ==
    /\ last.op = ""
    /\ ServeOnFault({"CreateLivestockHandler", "GetLivestocksHandler",
                     "UpdateLivestockHandler", "DeleteLivestockHandler"})

EmployeeRequestOnFault ==
    /\ last.op = ""
    /\ ServeOnFault({"CreateEmployeeHandler", "GetEmployeeHandler", "GetEmployeesHandler",
                     "UpdateEmployeeHandler", "DeleteEmployeeHandler"})

NextFault ==
    \/ Respond
    \/ SignupFirst \/ Login \/ ForgotPassword
    \/ CreateFarm \/ CreateCrop \/ CreateLivestock \/ CreateEmployee
    \/ AccountRequestOnFault \/ FarmRequestOnFault \/ CropRequestOnFault
    \/ LivestockRequestOnFault \/ EmployeeRequestOnFault

SpecFault == Init /\ [][NextFault]_vars


----------------------------------------------------------------------------
(* Every route, with and without store failures *)

\* The first account asks for a reset code.
ForgotPasswordFirst ==
    /\ last.op = ""
    /\ \E req \in PublicRequests({[Email |-> "a@x.com"]}) :
            Serve("ForgotPasswordHandler", req)

NextFrame ==
    \/ Next
    \/ ForgotPasswordFirst \/ ResetPassword
    \/ AccountRequestOnFault \/ FarmRequestOnFault \/ CropRequestOnFault
    \/ LivestockRequestOnFault \/ EmployeeRequestOnFault

SpecFrame == Init /\ [][NextFrame]_vars


----------------------------------------------------------------------------
(* Listings over a store that holds the farms and records of two accounts *)

\* FarmRepo.Insert of a farm for a live account.
FarmRepoInsert ==
    \E u \in {users[i] : i \in 1..Len(users)} :
        /\ last = Idle
        /\ ~u.Deleted
        /\ Len(farms) < MaxListed
        /\ farms' = Append(farms, NewFarm(FarmBody("North", 5), u.UserID))
        /\ UNCHANGED <<users, crops, livestocks, employees, issued, otpLog, now, env, last, inflight>>

\* FarmRepo.DeleteByID
FarmRepoDeleteByID ==
    \E i \in 1..Len(farms) :
        /\ last = Idle
        /\ ~farms[i].Deleted
        /\ farms' = SoftDelete(farms, farms[i].ID)
        /\ UNCHANGED <<users, crops, livestocks, employees, issued, otpLog, now, env, last, inflight>>

\* CropRepo.Insert, LivestockRepo.Insert or EmployeeRepo.Insert of a record
\* under a live farm.
RecordRepoInsert ==
    \E f \in LiveFarmIDs :
        /\ last = Idle
        /\ Records < MaxListed
        /\ \/ /\ crops' = Append(crops, NewCrop(CropBody("Maize", 3, ""), f))
              /\ UNCHANGED <<livestocks, employees>>
           \/ /\ livestocks' = Append(livestocks, NewLivestock(LivestockBody("Goat", 4, ""), f))
              /\ UNCHANGED <<crops, employees>>
           \/ /\ employees' = Append(employees,
                                     NewEmployee(EmployeeBody(<< >>, "Sam", "Herder"), f))
              /\ UNCHANGED <<crops, livestocks>>
        /\ UNCHANGED <<users, farms, issued, otpLog, now, env, last, inflight>>

\* CropRepo.DeleteByID, LivestockRepo.DeleteByID or EmployeeRepo.DeleteByID
RecordRepoDeleteByID ==
    /\ last = Idle
    /\ \/ \E i \in 1..Len(crops) :
              /\ ~crops[i].Deleted
              /\ crops' = SoftDelete(crops, crops[i].ID)
              /\ UNCHANGED <<livestocks, employees>>
       \/ \E i \in 1..Len(livestocks) :
              /\ ~livestocks[i].Deleted
              /\ livestocks' = SoftDelete(livestocks, livestocks[i].ID)
              /\ UNCHANGED <<crops, employees>>
       \/ \E i \in 1..Len(employees) :
              /\ ~employees[i].Deleted
              /\ employees' = SoftDelete(employees, employees[i].ID)
              /\ UNCHANGED <<crops, livestocks>>
    /\ UNCHANGED <<users, farms, issued, otpLog, now, env, last, inflight>>

ListedFarmIDs == {NewUUID("farm", i) : i \in 1..MaxListed}

\* A list request under a held token.
ListFarms ==
    /\ last.op = ""
    /\ \E req \in Addressed(Nil, Nil, {NoBody}) : Serve("GetFarmsHandler", req)

ListRecords ==
    /\ last.op = ""
    /\ \E op \in {"GetCropsHandler", "GetLivestocksHandler", "GetEmployeesHandler"} :
          \E req \in Addressed(Nil, ListedFarmIDs, {NoBody}) : Serve(op, req)

NextListing ==
    \/ Respond
    \/ Signup \/ Login
    \/ FarmRepoInsert \/ FarmRepoDeleteByID
    \/ RecordRepoInsert \/ RecordRepoDeleteByID
    \/ ListFarms \/ ListRecords

SpecListing == Init /\ [][NextListing]_vars


----------------------------------------------------------------------------
(* Requests by URL: the chi router matches method and path against routes() *)

Collections == {"/api/farms/", "/api/crops/", "/api/livestock/", "/api/employees/"}
ByIDMethods == {"GET", "PUT", "DELETE"}

\* The pattern a path under a collection matches: "/" for the collection
\* itself, "/{id}" for one further segment.
PatternOf(prefix, seg) ==
    IF seg = << >> THEN prefix
    ELSE CASE prefix = "/api/farms/" -> "/api/farms/{id}"
           [] prefix = "/api/crops/" -> "/api/crops/{id}"
           [] prefix = "/api/livestock/" -> "/api/livestock/{id}"
           [] prefix = "/api/employees/" -> "/api/employees/{id}"

\* The handlers registered for that method and path (none or one).
Routed(method, prefix, seg) ==
    {op \in DOMAIN routes :
        routes[op].method = method /\ routes[op].pattern = PatternOf(prefix, seg)}

LiveIDsUnder(prefix) ==
    CASE prefix = "/api/farms/" -> LiveFarmIDs
      [] prefix = "/api/crops/" -> LiveCropIDs
      [] prefix = "/api/livestock/" -> LiveLivestockIDs
      [] prefix = "/api/employees/" -> LiveEmployeeIDs

\* The request req as sent to a URL; req.id stays the `id` query parameter.
AtURL(req, method, prefix, seg) ==
    [auth |-> req.auth, id |-> req.id, farmId |-> req.farmId, body |-> req.body,
     hdr |-> req.hdr, fault |-> req.fault,
     url |-> [method |-> method, prefix |-> prefix, seg |-> seg]]

\* chi's answer when no route matches the path: 404, no handler runs.
NotFound(req) ==
    /\ last' = [op |-> "NotFound", req |-> req, hdr |-> req.hdr, ran |-> FALSE, at |-> now,
                status |-> StatusNotFound, msg |-> "404 page not found", token |-> << >>,
                ids |-> {}, failed |-> FALSE]
    /\ UNCHANGED <<users, farms, crops, livestocks, employees, issued, otpLog, now, env, inflight>>

\* The bodies sent with a by-ID request.
ByIDBodies(op) ==
    CASE op = "UpdateFarmHandler" -> FarmUpdateBodies
      [] op = "UpdateCropHandler" -> CropUpdateBodies
      [] op = "UpdateLivestockHandler" -> LivestockUpdateBodies
      [] op = "UpdateEmployeeHandler" -> EmployeeUpdateBodies
      [] OTHER -> {NoBody}

\* GET, PUT or DELETE of <collection>/<id of a live record>, with or without an
\* `id` query parameter, under a held token.
RequestByID ==
    /\ last.op = ""
    /\ \E method \in ByIDMethods, prefix \in Collections :
          \E seg \in LiveIDsUnder(prefix) :
              IF Routed(method, prefix, seg) = {}
              THEN \E req \in Addressed(Nil, Nil, {NoBody}) :
                      NotFound(AtURL(req, method, prefix, seg))
              ELSE \E op \in Routed(method, prefix, seg) :
                      \E req \in Addressed(LiveIDsUnder(prefix) \cup Nil, Nil, ByIDBodies(op)) :
                          Serve(op, AtURL(req, method, prefix, seg))

NextRoute ==
    \/ Respond
    \/ SignupFirst \/ Login
    \/ CreateFarm \/ CreateCrop \/ CreateLivestock \/ CreateEmployee
    \/ RequestByID

SpecRoute == Init /\ [][NextRoute]_vars


----------------------------------------------------------------------------
(* Credentials: a client signs up or resets its password and then logs in *)

RECURSIVE Repeat(_, _)
Repeat(s, n) == IF n = 0 THEN "" ELSE s \o Repeat(s, n - 1)

\* A plaintext of exactly the length the key schedule reads, and the same
\* plaintext followed by one more character.
FullKeyPassword == Repeat("k", BcryptKeyBytes)
OverlongPassword == FullKeyPassword \o "x"

CredentialPasswords == {"pw1", "pw2", FullKeyPassword, OverlongPassword}

SignupCredential ==
    /\ last.op = ""
    /\ \E req \in PublicRequests(SignupBodies({"a@x.com"}, CredentialPasswords, {""})) :
            Serve("SignupHandler", req)

ResetCredential ==
    /\ last.op = ""
    /\ \E req \in PublicRequests(ResetBodies(CredentialPasswords)) :
            Serve("ResetPasswordHandler", req)

\* The client's next request after the response to its signup or reset: a login.
LoginAfter ==
    /\ last.op \in {"SignupHandler", "ResetPasswordHandler"}
    /\ \E req \in PublicRequests(LoginBodies(CredentialPasswords)) :
            Serve("LoginHandler", req)

NextCredential ==
    \/ Respond
    \/ SignupCredential \/ ForgotPasswordFirst \/ ResetCredential
    \/ LoginAfter

SpecCredential == Init /\ [][NextCredential]_vars


----------------------------------------------------------------------------
(* Requests that arrive with X-User-* headers of the client's choosing *)

\* The headers a client may send: the identity of a registered account, with
\* its role or as Admin, and an identity nobody has.
ClientHeaders ==
    {[XUserID |-> Itoa(u.ID), XUserEmail |-> u.Email, XUserRole |-> role] :
        u \in {users[i] : i \in 1..Len(users)}, role \in {"Farmer", "Admin"}}
    \cup {[XUserID |-> Itoa(0), XUserEmail |-> "nobody@x.com", XUserRole |-> "Admin"]}

WithHeaders(req, hdr) == [req EXCEPT !.hdr = hdr]

HeaderedOps ==
    {"RefreshTokenHandler", "CreateFarmHandler", "GetFarmsHandler", "GetFarmHandler",
     "UpdateFarmHandler", "DeleteFarmHandler"}

\* The requests sent to those routes, before the client's headers are added.
HeaderedRequests(op) ==
    CASE op \in {"RefreshTokenHandler", "GetFarmsHandler"} ->
            ProtectedRequests(Nil, Nil, {NoBody})
      [] op = "CreateFarmHandler" -> ProtectedRequests(Nil, Nil, {FarmBody("North", 5)})
      [] op = "UpdateFarmHandler" -> ProtectedRequests(LiveFarmIDs \cup Nil, Nil, FarmUpdateBodies)
      [] OTHER -> ProtectedRequests(LiveFarmIDs \cup Nil, Nil, {NoBody})

RequestWithHeaders ==
    /\ last.op = ""
    /\ \E op \in HeaderedOps :
          \E req \in HeaderedRequests(op), hdr \in ClientHeaders :
              Serve(op, WithHeaders(req, hdr))

NextHeaders ==
    \/ Respond
    \/ Signup \/ Login
    \/ RequestWithHeaders

SpecHeaders == Init /\ [][NextHeaders]_vars

-----------------------------------------------------------------------------
(* UserRepo.ResetPasswordWithOTP called with any code, the empty one included *)

\* A call of UserRepo.ResetPasswordWithOTP by a caller of the data layer; the
\* error it returned is kept in msg, which is empty when it returned nil.
ResetPasswordWithOTPCall ==
    /\ last.op = ""
    /\ \E email \in Emails, otp \in OTPCodes \cup {<< >>} :
            LET b == [Email |-> email, OTP |-> otp, NewPassword |-> "pw3"]
                r == ResetPasswordWithOTP(email, otp, "pw3")
            IN  /\ users' = r.users
                /\ last' = [Idle EXCEPT !.op = "UserRepo.ResetPasswordWithOTP",
                                        !.req = Req(NoAuth, << >>, << >>, b),
                                        !.ran = TRUE,
                                        !.at = now,
                                        !.msg = r.err]
    /\ UNCHANGED <<farms, crops, livestocks, employees, issued, otpLog, env, now, inflight>>

NextResetCall ==
    \/ Respond
    \/ SignupFirst \/ ForgotPassword \/ ResetPassword
    \/ ResetPasswordWithOTPCall
    \/ TickMinute

SpecResetCall == Init /\ [][NextResetCall]_vars

-----------------------------------------------------------------------------
(* Records of a deleted farm, asked for by callers with and without an account *)

NextSealed ==
    \/ Respond
    \/ SignupFirst \/ Login
    \/ CreateFarm \/ DeleteFarm
    \/ CreateCrop \/ GetCrops \/ GetCrop \/ UpdateCrop \/ DeleteCrop
    \/ CreateLivestock \/ GetLivestocks \/ UpdateLivestock \/ DeleteLivestock
    \/ CreateEmployee \/ GetEmployees \/ GetEmployee \/ UpdateEmployee \/ DeleteEmployee
    \/ UserRepoDeleteByID

SpecSealed == Init /\ [][NextSealed]_vars

-----------------------------------------------------------------------------
(* The same requests before and after the caller's Active flag or Role changes *)

\* A request to one of the creation routes, to GET /api/farms/{id} or to
\* PUT /api/crops/{id}, under a held token, naming a live record or farm where
\* the route takes one.
ResourceRequest ==
    /\ last.op = ""
    /\ \E op \in {"CreateFarmHandler", "CreateCropHandler", "CreateLivestockHandler",
                  "CreateEmployeeHandler", "GetFarmHandler", "UpdateCropHandler"} :
          \E req \in RequestsOnFault(op) : Serve(op, req)

NextGuard ==
    \/ Respond
    \/ Signup \/ Login
    \/ ResourceRequest
    \/ UserRepoUpdate \/ UserRepoUpdateRole

SpecGuard == Init /\ [][NextGuard]_vars

----------------------------------------------------------------------------
(* Updates that supply some of a record's fields, over a store of several records *)

\* Update bodies that supply a text field, a number, a date or an account
\* link, each leaving the other fields of the request empty.
SuppliedBodies(op) ==
    CASE op = "UpdateFarmHandler" ->
            FarmUpdateBodies
                \cup {[Name |-> "", Description |-> "", Location |-> "", Size |-> 7,
                       FarmType |-> "", Status |-> ""]}
      [] op = "UpdateCropHandler" ->
            CropUpdateBodies
                \cup {[Name |-> "", PlantingDate |-> <<2>>, HarvestDate |-> << >>,
                       Quantity |-> 9, Status |-> "", Notes |-> ""]}
      [] op = "UpdateLivestockHandler" ->
            LivestockUpdateBodies \cup {LivestockBody("Sheep", 0, "")}
      [] op = "UpdateEmployeeHandler" ->
            EmployeeUpdateBodies
                \cup {[EmployeeBody(<<"a@x.com">>, "", "") EXCEPT !.LastName = ""],
                      [EmployeeBody(<<"">>, "", "") EXCEPT !.LastName = "", !.Salary = 4]}

UpdateOps ==
    {"UpdateFarmHandler", "UpdateCropHandler", "UpdateLivestockHandler",
     "UpdateEmployeeHandler"}

LiveIDs(op) ==
    CASE op = "UpdateFarmHandler" -> LiveFarmIDs
      [] op = "UpdateCropHandler" -> LiveCropIDs
      [] op = "UpdateLivestockHandler" -> LiveLivestockIDs
      [] op = "UpdateEmployeeHandler" -> LiveEmployeeIDs

UpdateSupplied ==
    /\ last.op = ""
    /\ \E op \in UpdateOps :
          \E req \in Addressed(LiveIDs(op), Nil, SuppliedBodies(op)) : Serve(op, req)

NextPartial ==
    \/ Respond
    \/ SignupFirst \/ LoginFirst
    \/ FarmRepoInsert \/ RecordRepoInsert
    \/ UpdateSupplied

SpecPartial == Init /\ [][NextPartial]_vars

----------------------------------------------------------------------------
(* Concurrent updates and deletes: an update's read and its Save as separate steps *)

\* The copy of the row an update handler holds after its checks: the row it
\* read, with the supplied fields of the request assigned.
HeldCopy(op, ctx) ==
    CASE op = "UpdateFarmHandler" -> MergeFarm(GetByFarmID(ctx.req.id)[1], ctx.req.body)
      [] op = "UpdateCropHandler" -> MergeCrop(GetByCropID(ctx.req.id)[1], ctx.req.body)
      [] op = "UpdateLivestockHandler" ->
            MergeLivestock(GetByLivestockID(ctx.req.id)[1], ctx.req.body)
      [] op = "UpdateEmployeeHandler" ->
            MergeEmployee(GetByEmployeeID(ctx.req.id)[1], ctx.req.body)

\* An update handler up to its Save, while no other update is between its
\* read and its Save: it has read the record, the account and the farm, and
\* every check has passed.
UpdateRead ==
    /\ last.op = ""
    /\ inflight = {}
    /\ \E op \in UpdateOps, tok \in Tokens :
          \E id \in LiveIDs(op), body \in SuppliedBodies(op) :
              LET req == Req(Bearer(<<tok>>), id, << >>, body)
                  ctx == [op |-> op, req |-> req, hdr |-> SetHeaders(req.hdr, tok.claims)]
              IN  /\ ENABLED (Invoke(ctx) /\ last'.status = StatusOK)
                  /\ inflight' = inflight \cup {[conn |-> 1, ctx |-> ctx,
                                                 row |-> HeldCopy(op, ctx)]}
    /\ UNCHANGED <<users, farms, crops, livestocks, employees, issued, otpLog, now, env, last>>

\* The rest of the update handler: Repo.Update of the held copy and the response.
UpdateSave ==
    /\ last.op = ""
    /\ \E c \in inflight :
          /\ inflight' = inflight \ {c}
          /\ \/ /\ c.ctx.op = "UpdateFarmHandler"
                /\ farms' = SaveRow(farms, c.row)
                /\ last' = [Reply(c.ctx, StatusOK, "Farm updated successfully")
                               EXCEPT !.ids = {c.row.FarmID}]
                /\ UNCHANGED <<crops, livestocks, employees>>
             \/ /\ c.ctx.op = "UpdateCropHandler"
                /\ crops' = SaveRow(crops, c.row)
                /\ last' = [Reply(c.ctx, StatusOK, "Crop updated successfully")
                               EXCEPT !.ids = {c.row.CropID}]
                /\ UNCHANGED <<farms, livestocks, employees>>
             \/ /\ c.ctx.op = "UpdateLivestockHandler"
                /\ livestocks' = SaveRow(livestocks, c.row)
                /\ last' = [Reply(c.ctx, StatusOK, "Livestock updated successfully")
                               EXCEPT !.ids = {c.row.LivestockID}]
                /\ UNCHANGED <<farms, crops, employees>>
             \/ /\ c.ctx.op = "UpdateEmployeeHandler"
                /\ employees' = SaveRow(employees, c.row)
                /\ last' = [Reply(c.ctx, StatusOK, "Employee updated successfully")
                               EXCEPT !.ids = {c.row.EmployeeID}]
                /\ UNCHANGED <<farms, crops, livestocks>>
    /\ UNCHANGED <<users, issued, otpLog, now, env>>

NextRace ==
    \/ Respond
    \/ SignupFirst \/ LoginFirst
    \/ CreateFarm \/ CreateCrop \/ CreateLivestock \/ CreateEmployee
    \/ UpdateRead \/ UpdateSave
    \/ DeleteFarm \/ DeleteCrop \/ DeleteLivestock \/ DeleteEmployee
    \/ GetFarm \/ GetFarms \/ GetCrop \/ GetCrops \/ GetLivestocks
    \/ GetEmployee \/ GetEmployees

SpecRace == Init /\ [][NextRace]_vars

----------------------------------------------------------------------------
(* Observations the properties are stated over *)

Rows(table) == {table[i] : i \in 1..Len(table)}
Live(table) == {r \in Rows(table) : ~r.Deleted}

FarmTargetOps == {"GetFarmHandler", "UpdateFarmHandler", "DeleteFarmHandler"}
CropTargetOps == {"GetCropHandler", "UpdateCropHandler", "DeleteCropHandler"}
LivestockTargetOps == {"UpdateLivestockHandler", "DeleteLivestockHandler"}
EmployeeTargetOps == {"GetEmployeeHandler", "UpdateEmployeeHandler", "DeleteEmployeeHandler"}
TargetOps == FarmTargetOps \cup CropTargetOps \cup LivestockTargetOps \cup EmployeeTargetOps

\* The live record a get / update / delete response r was addressed to.
Targets(r) ==
    CASE r.op \in FarmTargetOps -> {f \in Live(farms) : f.FarmID = r.req.id}
      [] r.op \in CropTargetOps -> {c \in Live(crops) : c.CropID = r.req.id}
      [] r.op \in LivestockTargetOps -> {l \in Live(livestocks) : l.LivestockID = r.req.id}
      [] r.op \in EmployeeTargetOps -> {e \in Live(employees) : e.EmployeeID = r.req.id}
      [] OTHER -> {}

\* The live farms those records are, or are under.
TargetFarms(r) ==
    IF r.op \in FarmTargetOps THEN Targets(r)
    ELSE {f \in Live(farms) : \E t \in Targets(r) : t.FarmID = f.FarmID}

\* The live accounts that were handed the token the request carries and for
\* which that token is still within its validity window.
Callers(r) ==
    {u \in Live(users) :
        \E e \in issued :
            /\ r.req.auth = Bearer(<<e.token>>)
            /\ e.ID = u.ID /\ e.Email = u.Email
            /\ now < e.token.claims.ExpiresAt}

----------------------------------------------------------------------------
(* Tenant isolation *)

\* C1: whenever an account B that presents a token issued to it sends a get,
\* update or delete (through the id query parameter the handlers read) for a
\* live farm owned by another account A, or for a live crop, livestock or
\* employee record under such a farm, the response is 403 and no table changes.
TenantIsolation ==
    [][\A A \in Live(users), B \in Callers(last') :
          (/\ last'.op \in TargetOps
           /\ A.UserID # B.UserID
           /\ \E f \in TargetFarms(last') : f.UserID = A.UserID)
          => (/\ last'.status = StatusForbidden
              /\ store' = store)]_vars

\* C1 is exercised: a non-owner holding a valid token was refused an update of
\* a crop under another account's farm.
TenantIsolationWitness ==
    /\ last.op = "UpdateCropHandler"
    /\ last.status = StatusForbidden
    /\ \E A \in Live(users), B \in Callers(last) :
          /\ A.UserID # B.UserID
          /\ \E f \in TargetFarms(last) : f.UserID = A.UserID

----------------------------------------------------------------------------
(* Authentication gate *)

ResourceOps ==
    {"CreateFarmHandler", "GetFarmsHandler", "GetFarmHandler", "UpdateFarmHandler",
     "DeleteFarmHandler",
     "CreateCropHandler", "GetCropsHandler", "GetCropHandler", "UpdateCropHandler",
     "DeleteCropHandler",
     "CreateLivestockHandler", "GetLivestocksHandler", "GetLivestockHandler",
     "UpdateLivestockHandler", "DeleteLivestockHandler",
     "CreateEmployeeHandler", "GetEmployeesHandler", "GetEmployeeHandler",
     "UpdateEmployeeHandler", "DeleteEmployeeHandler"}
GatedOps == ResourceOps \cup {"RefreshTokenHandler"}

\* "Bearer <token>": the seven characters "Bearer " followed by a token.
BearerForm(auth) ==
    \E n \in 1..Len(auth) :
        /\ n = Len(BearerPrefix)
        /\ n < Len(auth)
        /\ \A i \in 1..n : auth[i] = BearerPrefix[i]

TokenPart(auth) == [i \in 1..(Len(auth) - Len(BearerPrefix)) |-> auth[i + Len(BearerPrefix)]]

Unusable(auth) ==
    \/ auth = << >>
    \/ ~BearerForm(auth)
    \/ ~ValidateJWT(TokenPart(auth)).ok

\* C5: every response of a farm, crop, livestock or employee operation and of
\* token refresh to a request that has no Authorization header, a header not of
\* the form "Bearer <token>", or a token ValidateJWT rejects, is a 401 produced
\* without the handler having been invoked, and no table and no issued token
\* changes.
GatedByJWTMiddleware ==
    [][(last'.op \in GatedOps /\ Unusable(last'.req.auth))
          => (/\ last'.status = StatusUnauthorized
              /\ ~last'.ran
              /\ store' = store
              /\ issued' = issued)]_vars

\* C5 is exercised: a farm deletion carrying a token re-signed under another
\* key was answered 401 by the middleware.
GatedByJWTMiddlewareWitness ==
    /\ last.op = "DeleteFarmHandler"
    /\ last.req.auth \in {Bearer(<<t>>) : t \in Resigned}
    /\ last.status = StatusUnauthorized
    /\ ~last.ran
    /\ Live(farms) # {}

----------------------------------------------------------------------------
(* Tokens *)

\* The token a request carries in a header of the form "Bearer <token>".
Carried(r) ==
    IF BearerForm(r.req.auth)
    THEN {TokenPart(r.req.auth)[i] : i \in 1..Len(TokenPart(r.req.auth))}
    ELSE {}

\* C2: at every time before its expiry, each token GenerateJWT produced for an
\* account is accepted by ValidateJWT, and the claims returned carry the
\* numeric id, the email and the role the account had when it was issued.
TokenRoundTrip ==
    \A e \in issued :
        (now < e.token.claims.ExpiresAt)
            => LET v == ValidateJWT(<<e.token>>)
               IN  /\ v.ok
                   /\ v.claims[1].UserID = e.ID
                   /\ v.claims[1].Email = e.Email
                   /\ v.claims[1].Role = e.Role

\* C2 is exercised: a token issued to an Admin account under a configured
\* secret was presented an hour or more later, before its expiry, and the
\* middleware passed the account's identity on to the handler.
TokenRoundTripWitness ==
    /\ last.op = "RefreshTokenHandler"
    /\ last.ran
    /\ env.JWT_SECRET # ""
    /\ \E e \in issued, u \in Live(users) :
          /\ last.req.auth = Bearer(<<e.token>>)
          /\ e.at < now /\ now < e.token.claims.ExpiresAt
          /\ u.ID = e.ID /\ u.Email = e.Email /\ u.Role = e.Role /\ u.Role = "Admin"
          /\ last.hdr = [XUserID |-> Itoa(u.ID), XUserEmail |-> u.Email, XUserRole |-> u.Role]

\* The key a well-formed token's signature was made with.
SignedWith(tok) == tok.sig[2]

\* A well-formed token signed with a secret other than the configured one, or
\* with a method outside the HMAC family.
Foreign(tok) ==
    /\ tok.wellFormed
    /\ \/ tok.alg \notin {"HS256", "HS384", "HS512"}
       \/ SignedWith(tok) # (IF env.JWT_SECRET = "" THEN FallbackSecret ELSE env.JWT_SECRET)

\* C3: ValidateJWT rejects every token signed with a secret other than the
\* configured one and every token whose method is not of the HMAC family,
\* whatever its claims, and a request carrying such a token is answered 401
\* without the protected handler having run.
ForeignTokensRejected ==
    /\ \A tok \in Tokens \cup ForgedTokens : Foreign(tok) => ~ValidateJWT(<<tok>>).ok
    /\ \A tok \in Carried(last) :
          (last.op \in GatedOps /\ Foreign(tok))
              => (~last.ran /\ last.status = StatusUnauthorized)

\* C3 is exercised: an unexpired copy of an issued token, re-signed with HS256
\* under another key, was refused by the middleware.
ForeignTokensRejectedWitness ==
    /\ last.op = "GetFarmsHandler"
    /\ ~last.ran
    /\ last.status = StatusUnauthorized
    /\ \E tok \in Carried(last), e \in issued :
          /\ Foreign(tok)
          /\ tok.alg = "HS256"
          /\ tok.claims = e.token.claims
          /\ now < tok.claims.ExpiresAt

\* The validity, in hours, the configuration asks for: the value of
\* JWT_EXPIRATION_HOURS when it is an integer, 24 when it is unset or not one.
ConfiguredTTL ==
    CASE env.JWT_EXPIRATION_HOURS = <<"2">> -> 2
      [] env.JWT_EXPIRATION_HOURS = <<"-", "1">> -> 0 - 1
      [] env.JWT_EXPIRATION_HOURS = <<"-", "3", "0", "0", "0", "0", "0", "0">> -> 0 - 3000000
      [] env.JWT_EXPIRATION_HOURS = <<"1", "2", "h">> -> 24
      [] env.JWT_EXPIRATION_HOURS = << >> -> 24

\* The token of e was issued more than the configured validity ago.
PastTTL(e) == now > e.at + MinutesPerHour * ConfiguredTTL

\* C4: a token issued at time t is rejected by ValidateJWT at every time after
\* t + TTL, TTL being the hours JWT_EXPIRATION_HOURS names when it is an
\* integer and 24 hours otherwise, and a request carrying it is answered 401.
TokenExpiryWindow ==
    \A e \in issued :
        PastTTL(e)
            => /\ ~ValidateJWT(<<e.token>>).ok
               /\ (last.op \in GatedOps /\ last.req.auth = Bearer(<<e.token>>))
                    => (last.status = StatusUnauthorized /\ ~last.ran)

\* The part of C4 GenerateJWT does ensure: the window holds whenever the
\* configured hours fit a time.Duration.
TokenExpiryWindowInRange ==
    (ConfiguredTTL <= MaxDurationHours /\ ConfiguredTTL >= 0 - MaxDurationHours)
        => TokenExpiryWindow

\* C4's failing case is reached: under JWT_EXPIRATION_HOURS=-3000000 a token
\* issued a day earlier was accepted and the handler ran.
OverflowedTokenAccepted ==
    /\ last.op = "GetFarmsHandler"
    /\ last.ran
    /\ \E e \in issued :
          /\ last.req.auth = Bearer(<<e.token>>)
          /\ now >= e.at + MinutesPerDay
          /\ ConfiguredTTL < 0

\* A token of the default validity was refused a day after it was issued.
ExpiredTokenRefused ==
    /\ last.op = "GetFarmsHandler"
    /\ last.status = StatusUnauthorized
    /\ ConfiguredTTL = DefaultExpirationHours
    /\ \E e \in issued : last.req.auth = Bearer(<<e.token>>) /\ PastTTL(e)

----------------------------------------------------------------------------
(* Soft deletion *)

ListOps == {"GetFarmsHandler", "GetCropsHandler", "GetLivestocksHandler", "GetEmployeesHandler"}

Deleted(table) == {r \in Rows(table) : r.Deleted}

\* The public identifiers of the soft-deleted records.
DeletedIDs ==
    {f.FarmID : f \in Deleted(farms)} \cup {c.CropID : c \in Deleted(crops)}
    \cup {l.LivestockID : l \in Deleted(livestocks)}
    \cup {e.EmployeeID : e \in Deleted(employees)}

\* The response r was addressed to a soft-deleted record of the handler's table.
AddressesDeleted(r) ==
    CASE r.op \in FarmTargetOps -> \E f \in Deleted(farms) : f.FarmID = r.req.id
      [] r.op \in CropTargetOps -> \E c \in Deleted(crops) : c.CropID = r.req.id
      [] r.op \in LivestockTargetOps ->
            \E l \in Deleted(livestocks) : l.LivestockID = r.req.id
      [] r.op \in EmployeeTargetOps -> \E e \in Deleted(employees) : e.EmployeeID = r.req.id
      [] OTHER -> FALSE

----------------------------------------------------------------------------
(* Login *)

InvalidCredentials == [status |-> StatusUnauthorized, msg |-> "invalid email or password"]

Outcome(r) == [status |-> r.status, msg |-> r.msg]

\* The live account a login or reset request names, if any.
Named(r) == {u \in Live(users) : u.Email = r.req.body.Email}

WellFormedLogin(r) ==
    r.op = "LoginHandler" /\ r.req.body.Email # "" /\ r.req.body.Password # ""

\* C7: a login naming an identity that is not registered and a login naming a
\* registered identity with a password that does not match its stored hash
\* receive the same status and the same message.
LoginErrorsIdentical ==
    [][WellFormedLogin(last')
          => /\ (Named(last') = {}) => (Outcome(last') = InvalidCredentials)
             /\ \A u \in Named(last') :
                    (u.Password # HashPassword(last'.req.body.Password))
                        => (Outcome(last') = InvalidCredentials)]_vars

\* The part of C7 the handler does ensure: for an active account the two
\* responses are the same.
LoginErrorsIdenticalWhenActive ==
    [][WellFormedLogin(last')
          => /\ (Named(last') = {}) => (Outcome(last') = InvalidCredentials)
             /\ \A u \in Named(last') :
                    (u.Active /\ u.Password # HashPassword(last'.req.body.Password))
                        => (Outcome(last') = InvalidCredentials)]_vars

\* C8: a login is answered with a token exactly when the named identity is
\* registered, active and the password matches the stored hash; every other
\* login is answered with the InvalidCredentials error and without a token,
\* and hands out no token.
LoginIssuesOnlyWhenVerified ==
    [][WellFormedLogin(last')
          => LET verified ==
                    \E u \in Named(last') :
                        u.Active /\ u.Password = HashPassword(last'.req.body.Password)
             IN  /\ (last'.token # << >>) => verified
                 /\ ~verified => (/\ Outcome(last') = InvalidCredentials
                                  /\ last'.token = << >>
                                  /\ issued' = issued)]_vars

\* The part of C8 the handler does ensure: a token only for a registered,
\* active account with the matching password, and otherwise a 401 without one.
LoginTokenOnlyWhenVerified ==
    [][WellFormedLogin(last')
          => LET verified ==
                    \E u \in Named(last') :
                        u.Active /\ u.Password = HashPassword(last'.req.body.Password)
             IN  /\ (last'.token # << >>) => verified
                 /\ ~verified => (/\ last'.status = StatusUnauthorized
                                  /\ last'.token = << >>
                                  /\ issued' = issued)]_vars

\* C7's failing case is reached: a login with a wrong password for a
\* registered, deactivated account was answered "account is deactivated".
DeactivatedWrongPasswordSeen ==
    /\ WellFormedLogin(last)
    /\ Outcome(last) = [status |-> StatusUnauthorized, msg |-> "account is deactivated"]
    /\ \E u \in Named(last) :
          ~u.Active /\ u.Password # HashPassword(last.req.body.Password)

\* C8's failing case is reached: a login with the right password for a
\* deactivated account was answered "account is deactivated", without a token.
DeactivatedLoginSeen ==
    /\ WellFormedLogin(last)
    /\ Outcome(last) = [status |-> StatusUnauthorized, msg |-> "account is deactivated"]
    /\ last.token = << >>
    /\ \E u \in Named(last) :
          ~u.Active /\ u.Password = HashPassword(last.req.body.Password)

----------------------------------------------------------------------------
(* Password reset *)

InvalidOrExpiredCode == [status |-> StatusBadRequest, msg |-> "invalid or expired reset code"]

WellFormedReset(r) ==
    /\ r.op = "ResetPasswordHandler"
    /\ r.req.body.Email # "" /\ r.req.body.OTP # << >> /\ r.req.body.NewPassword # ""

\* The row of account u after the step.
After(u) == {v \in Rows(users') : v.ID = u.ID}

----------------------------------------------------------------------------
(* Forgot password *)

\* The response ForgotPasswordHandler gives for an identity that is not registered.
ResetCodeMaybeSent ==
    [status |-> StatusOK, msg |-> "If the email exists, a password reset code has been sent"]

WellFormedForgot(r) == r.op = "ForgotPasswordHandler" /\ r.req.body.Email # ""

\* C11: a forgot-password request receives the same status and the same body
\* whether the identity it names is registered or not.
ForgotPasswordResponsesIdentical ==
    [][WellFormedForgot(last')
          => /\ (Named(last') = {}) => (Outcome(last') = ResetCodeMaybeSent)
             /\ (Named(last') # {}) => (Outcome(last') = ResetCodeMaybeSent)]_vars

\* The part of C11 the handler does ensure: both requests are answered 200.
ForgotPasswordStatusIdentical ==
    [][WellFormedForgot(last') => (last'.status = StatusOK)]_vars

\* C11's failing case is reached: a forgot-password request for a registered
\* identity was answered with a body an unregistered identity never receives.
RegisteredForgotSeen ==
    /\ WellFormedForgot(last)
    /\ Named(last) # {}
    /\ last.status = StatusOK
    /\ Outcome(last) # ResetCodeMaybeSent


----------------------------------------------------------------------------
(* Signup *)

DuplicateIdentity == [status |-> StatusConflict, msg |-> "user with this email already exists"]

WellFormedSignup(r) ==
    /\ r.op = "SignupHandler"
    /\ r.req.body.FirstName # "" /\ r.req.body.LastName # ""
    /\ r.req.body.Email # "" /\ r.req.body.Password # ""

\* C12: a signup that names an identity a registered (non-deleted) account
\* already has is answered 409 DuplicateIdentity, adds no account, and leaves
\* every account row, the first account's credential hash included, unchanged.
DuplicateSignupRefused ==
    [][(WellFormedSignup(last') /\ Named(last') # {})
          => (/\ Outcome(last') = DuplicateIdentity
              /\ users' = users)]_vars

\* C12 is exercised: a second signup for a registered identity, with another
\* password, was answered 409 and the account still carries its first hash.
DuplicateSignupRefusedWitness ==
    /\ WellFormedSignup(last)
    /\ Outcome(last) = DuplicateIdentity
    /\ \E u \in Named(last) :
          /\ u.Password = HashPassword("pw1")
          /\ last.req.body.Password = "pw2"
    /\ Len(users) = 1


\* C13: in every reachable state, whatever the interleaving of the duplicate
\* checks and the inserts of concurrent signups, at most one non-deleted
\* account has a given identity.
IdentityUnique ==
    \A i, j \in 1..Len(users) :
        (~users[i].Deleted /\ ~users[j].Deleted /\ users[i].Email = users[j].Email)
            => i = j

\* C13 is exercised: two signups for one identity both passed the duplicate
\* check, one inserted the account and the other's insert was refused.
IdentityUniqueWitness ==
    /\ last.op = "SignupHandler"
    /\ last.status = StatusInternalServerError
    /\ \E u \in Named(last) : u.Password # HashPassword(last.req.body.Password)
    /\ inflight = {}


----------------------------------------------------------------------------
(* Token refresh *)

AccountInactiveOrMissing ==
    [status |-> StatusUnauthorized, msg |-> "user not found or inactive"]

\* C14: a refresh whose token passed validation is answered with a new token
\* exactly when the account with the token's numeric id is, at request time,
\* not deleted and active; the new token's id, email and role claims are those
\* of the stored account, not those of the presented token; otherwise the
\* answer is AccountInactiveOrMissing, without a token, and none is issued.
RefreshFromCurrentAccount ==
    [][(last'.op = "RefreshTokenHandler" /\ last'.ran)
          => \A tok \in Carried(last') :
                LET account == {u \in Live(users) : u.ID = tok.claims.UserID}
                    usable == \E u \in account : u.Active
                IN  /\ (last'.token # << >>) <=> usable
                    /\ usable
                        => /\ last'.status = StatusOK
                           /\ \A u \in account :
                                 /\ last'.token[1].claims.UserID = u.ID
                                 /\ last'.token[1].claims.Email = u.Email
                                 /\ last'.token[1].claims.Role = u.Role
                    /\ ~usable
                        => /\ Outcome(last') = AccountInactiveOrMissing
                           /\ issued' = issued]_vars

\* C14 is exercised: a refresh presented a token issued before the account's
\* role was changed, and the new token carries the role now stored.
RefreshFromCurrentAccountWitness ==
    /\ last.op = "RefreshTokenHandler"
    /\ last.ran
    /\ last.token # << >>
    /\ \E tok \in Carried(last), u \in Live(users) :
          /\ u.ID = tok.claims.UserID
          /\ tok.claims.Role # u.Role
          /\ last.token[1].claims.Role = u.Role

\* A refresh for an account that is gone or deactivated was refused.
RefreshRefusedSeen ==
    /\ last.op = "RefreshTokenHandler"
    /\ last.ran
    /\ Outcome(last) = AccountInactiveOrMissing


----------------------------------------------------------------------------
(* Farm ownership *)

\* C15: a farm created through CreateFarmHandler carries, as its owner
\* reference, the account identifier of the authenticated caller, which is
\* never empty; and no step, a farm update included, changes the owner
\* reference of an existing farm row.
FarmOwnerFixedAtCreation ==
    [][/\ Len(farms') >= Len(farms)
       /\ \A i \in 1..Len(farms) : farms'[i].UserID = farms[i].UserID
       /\ \A i \in (Len(farms) + 1)..Len(farms') :
             /\ last'.op = "CreateFarmHandler"
             /\ farms'[i].UserID # << >>
             /\ Callers(last') # {}
             /\ \A u \in Callers(last') : farms'[i].UserID = u.UserID]_vars

\* C15 is exercised: the owner updated its farm and the row still names the
\* owner, while another account is registered.
FarmOwnerFixedAtCreationWitness ==
    /\ last.op = "UpdateFarmHandler"
    /\ last.status = StatusOK
    /\ \E f \in Live(farms), u \in Callers(last) :
          /\ f.FarmID = last.req.id
          /\ f.Name = "South"
          /\ f.UserID = u.UserID
    /\ Cardinality(Live(users)) = 2


----------------------------------------------------------------------------
(* Callers whose account is gone *)

AccountNotFound == [status |-> StatusNotFound, msg |-> "user not found"]

\* The request of r carries a validated token whose identity claim resolves to
\* no account, and names a record.
Orphaned(r) ==
    /\ r.op \in TargetOps
    /\ r.ran
    /\ r.req.id # << >>
    /\ \A tok \in Carried(r) : \A u \in Live(users) : u.Email # tok.claims.Email

\* C16: every get, update or delete of a farm, crop, livestock or employee
\* record sent under a valid token whose identity claim resolves to no account
\* is answered 404, whether or not the record exists.
OrphanedCallerAccountNotFound ==
    [][Orphaned(last') => (last'.status = AccountNotFound.status)]_vars

\* The part of C16 the handlers do ensure: for an existing crop, livestock or
\* employee record the caller without an account is answered AccountNotFound,
\* and no request of such a caller changes a table.
OrphanedCallerOfChildRecord ==
    [][Orphaned(last')
          => /\ store' = store
             /\ (last'.op \notin FarmTargetOps /\ Targets(last') # {})
                    => (Outcome(last') = AccountNotFound)]_vars

\* C16's failing case is reached: a caller whose account was deleted asked for
\* an existing farm and was answered 403.
OrphanedCallerDeniedSeen ==
    /\ Orphaned(last)
    /\ last.op = "GetFarmHandler"
    /\ Targets(last) # {}
    /\ last.status = StatusForbidden

\* A caller whose account was deleted asked for an existing crop and was
\* answered AccountNotFound.
OrphanedCallerOfCropSeen ==
    /\ Orphaned(last)
    /\ last.op = "GetCropHandler"
    /\ Targets(last) # {}
    /\ Outcome(last) = AccountNotFound


----------------------------------------------------------------------------
(* Creation guard *)

CreateChildOps == {"CreateCropHandler", "CreateLivestockHandler", "CreateEmployeeHandler"}

\* The creation request of r passed the middleware, carries the required
\* fields and a farm identifier.
ValidCreate(r) ==
    /\ r.op \in CreateChildOps
    /\ r.ran
    /\ r.req.farmId # << >>
    /\ CASE r.op = "CreateCropHandler" -> r.req.body.Name # "" /\ r.req.body.Quantity > 0
         [] r.op = "CreateLivestockHandler" -> r.req.body.Type # "" /\ r.req.body.Count > 0
         [] r.op = "CreateEmployeeHandler" ->
               /\ r.req.body.FirstName # "" /\ r.req.body.LastName # ""
               /\ r.req.body.Position # ""

\* The live farm the creation request names, if any.
NamedFarm(r) == {f \in Live(farms) : f.FarmID = r.req.farmId}

\* C17: creating a crop, livestock or employee record under a caller-supplied
\* farm identifier is answered 404 when no non-deleted farm has the identifier
\* and 403 when the farm is owned by another account, in both cases without
\* creating a record; it succeeds only when the farm's owner is the caller.
CreationGuard ==
    [][\A u \in Callers(last') :
          ValidCreate(last')
              => /\ (NamedFarm(last') = {})
                    => (last'.status = StatusNotFound /\ store' = store)
                 /\ (\E f \in NamedFarm(last') : f.UserID # u.UserID)
                    => (last'.status = StatusForbidden /\ store' = store)
                 /\ (last'.status = StatusCreated)
                    => (\E f \in NamedFarm(last') : f.UserID = u.UserID)]_vars

\* The part of C17 the handlers do ensure: a farm that is missing or owned by
\* another account is answered 403 and nothing is created, and a record is
\* created only under a farm the caller owns.
CreationGuardDenies ==
    [][\A u \in Callers(last') :
          ValidCreate(last')
              => /\ (\A f \in NamedFarm(last') : f.UserID # u.UserID)
                    => (last'.status = StatusForbidden /\ store' = store)
                 /\ (last'.status = StatusCreated)
                    => (\E f \in NamedFarm(last') : f.UserID = u.UserID)]_vars

\* C17's failing case is reached: a crop creation naming a farm identifier no
\* farm has was answered 403.
MissingFarmDeniedSeen ==
    /\ ValidCreate(last)
    /\ last.op = "CreateCropHandler"
    /\ Callers(last) # {}
    /\ NamedFarm(last) = {}
    /\ last.status = StatusForbidden

\* A crop creation under another account's farm was answered 403.
ForeignFarmDeniedSeen ==
    /\ ValidCreate(last)
    /\ last.op = "CreateCropHandler"
    /\ last.status = StatusForbidden
    /\ \E u \in Callers(last), f \in NamedFarm(last) : f.UserID # u.UserID


----------------------------------------------------------------------------
(* Store failures *)

\* The messages of the 500 responses: none carries detail of the failure.
GenericMessages ==
    {"internal server error", "failed to create user", "failed to generate reset code",
     "failed to create farm", "failed to update farm", "failed to delete farm",
     "failed to create crop", "failed to update crop", "failed to delete crop",
     "failed to create livestock", "failed to update livestock", "failed to delete livestock",
     "failed to create employee", "failed to update employee", "failed to delete employee"}

\* C18: whenever a store call made while handling a request returns a failure
\* other than "no such row", the response is 500 with a generic message, in
\* every handler, reset-password and the linked-user lookup of employee create
\* and update included.
StoreFailureIs500 ==
    [][last'.failed
          => (/\ last'.status = StatusInternalServerError
              /\ last'.msg \in GenericMessages)]_vars

\* The part of C18 the handlers do ensure: every store failure outside
\* reset-password and the linked-user lookup is answered 500 with a generic
\* message, and no store failure changes a table.
StoreFailureIs500Elsewhere ==
    [][last'.failed
          => /\ store' = store
             /\ (last'.req.fault \notin {"User.ResetPasswordWithOTP", "User.GetByEmail(linked)"})
                    => (/\ last'.status = StatusInternalServerError
                        /\ last'.msg \in GenericMessages)]_vars

\* C18's failing case is reached: the store failed during a reset-password
\* request and the response was 400.
ResetStoreFailureSeen ==
    /\ last.failed
    /\ last.op = "ResetPasswordHandler"
    /\ last.req.fault = "User.ResetPasswordWithOTP"
    /\ last.status = StatusBadRequest

\* The linked-user lookup of an employee creation failed and the response was 400.
LinkedLookupFailureSeen ==
    /\ last.failed
    /\ last.op = "CreateEmployeeHandler"
    /\ last.req.fault = "User.GetByEmail(linked)"
    /\ last.status = StatusBadRequest

\* The farm lookup of GetFarmHandler failed and the response was 500.
FarmLookupFailureSeen ==
    /\ last.failed
    /\ last.op = "GetFarmHandler"
    /\ last.req.fault = "Farm.GetByFarmID"
    /\ last.status = StatusInternalServerError


----------------------------------------------------------------------------
\* C19: no partial success. Every request that ends with a response outside
\* 2xx (validation failure, 401, 403, 404, 409, 500, and the 400 of a failed
\* reset) leaves the account, farm, crop, livestock and employee records
\* exactly as they were before the request.
Succeeded(r) == r.status \in {StatusOK, StatusCreated}

NoPartialSuccess ==
    [][(last.op = "" /\ last'.op # "" /\ ~Succeeded(last')) => store' = store]_vars

\* An update of an existing farm, with a body that would change it, was refused
\* or failed.
NoPartialSuccessWitness ==
    /\ last.op = "UpdateFarmHandler"
    /\ ~Succeeded(last)
    /\ \E i \in 1..Len(farms) :
            /\ farms[i].FarmID = last.req.id
            /\ ~farms[i].Deleted
            /\ MergeFarm(farms[i], last.req.body) # farms[i]

\* A reset with the right code failed in the store and the password is the old one.
ResetFailedSeen ==
    /\ last.op = "ResetPasswordHandler"
    /\ last.failed
    /\ \E i \in 1..Len(users) :
            /\ users[i].Email = last.req.body.Email
            /\ users[i].OTPCode = last.req.body.OTP


----------------------------------------------------------------------------
\* C20: tokens are not revocable. Once issued, a token passes ValidateJWT at
\* every time before its expiry whatever happens to the store afterwards
\* (password reset, deactivation or soft deletion of the account, a newer
\* token from login or refresh), and a step that changes neither the clock nor
\* the configuration does not change what ValidateJWT returns for it.
TokensNotRevocable ==
    [][\A e \in issued :
          /\ (env' = env /\ now' < e.token.claims.ExpiresAt)
                => ValidateJWT(<<e.token>>)'.ok
          /\ (env' = env /\ now' = now)
                => ValidateJWT(<<e.token>>)' = ValidateJWT(<<e.token>>)]_vars

\* The middleware let through a request carrying the older of two tokens of an
\* account that has since been soft-deleted.
TokensNotRevocableWitness ==
    /\ last.op \in {"GetFarmsHandler", "RefreshTokenHandler"}
    /\ last.ran
    /\ \E e \in issued, newer \in issued :
          /\ last.req.auth = Bearer(<<e.token>>)
          /\ newer.ID = e.ID /\ newer.at > e.at
          /\ GetOne(e.ID) = << >>
          /\ \E i \in 1..Len(users) : users[i].ID = e.ID /\ users[i].Deleted

\* The middleware let through a token issued before the account's password was
\* reset.
TokenOutlivesPasswordSeen ==
    /\ last.op = "GetFarmsHandler"
    /\ last.ran
    /\ last.status = StatusOK
    /\ \E e \in issued, u \in Live(users) :
          /\ last.req.auth = Bearer(<<e.token>>)
          /\ u.ID = e.ID
          /\ u.Password = HashPassword("pw2")

\* The middleware let through the token of a deactivated account.
TokenOutlivesDeactivationSeen ==
    /\ last.op = "GetFarmsHandler"
    /\ last.ran
    /\ \E e \in issued, u \in Live(users) :
          /\ last.req.auth = Bearer(<<e.token>>)
          /\ u.ID = e.ID
          /\ ~u.Active


----------------------------------------------------------------------------
(* Listings *)

\* The live accounts the token of the request was issued to.
TokenHolders(r) ==
    {u \in Live(users) : \E e \in issued : r.req.auth = Bearer(<<e.token>>) /\ e.ID = u.ID}

\* The table a list-by-farm handler reads, as public identifier and farm.
ListedTable(op) ==
    CASE op = "GetCropsHandler" -> {[id |-> c.CropID, FarmID |-> c.FarmID] : c \in Live(crops)}
      [] op = "GetLivestocksHandler" ->
            {[id |-> l.LivestockID, FarmID |-> l.FarmID] : l \in Live(livestocks)}
      [] op = "GetEmployeesHandler" ->
            {[id |-> e.EmployeeID, FarmID |-> e.FarmID] : e \in Live(employees)}
      [] OTHER -> {}

\* C21: listing isolation. A successful farm listing returns exactly the live
\* farms whose owner is the caller's account; a successful crop, livestock or
\* employee listing is addressed to a live farm the caller owns and returns
\* exactly the live records of that farm. No listing contains a record of
\* another account's farm.
ListingIsolation ==
    (last.op \in ListOps /\ last.status = StatusOK)
        => \E u \in TokenHolders(last) :
              IF last.op = "GetFarmsHandler"
              THEN last.ids = {f.FarmID : f \in {g \in Live(farms) : g.UserID = u.UserID}}
              ELSE /\ \E f \in Live(farms) :
                        f.FarmID = last.req.farmId /\ f.UserID = u.UserID
                   /\ last.ids = {x.id : x \in {y \in ListedTable(last.op) :
                                                    y.FarmID = last.req.farmId}}

\* Two accounts own a farm each, both farms hold a live record of the listed
\* kind, and one account's listing returned its own record.
ListingIsolationWitness ==
    /\ last.op = "GetCropsHandler"
    /\ last.status = StatusOK
    /\ last.ids # {}
    /\ \E f, g \in Live(farms) :
          /\ f.UserID # g.UserID
          /\ f.FarmID = last.req.farmId
          /\ \E c, d \in Live(crops) : c.FarmID = f.FarmID /\ d.FarmID = g.FarmID

\* An account that owns one of two live farms listed its farms.
FarmListingOfTwoSeen ==
    /\ last.op = "GetFarmsHandler"
    /\ last.status = StatusOK
    /\ Cardinality(last.ids) = 1
    /\ \E f, g \in Live(farms) : f.UserID # g.UserID

\* A listing addressed to another account's farm was refused.
ForeignListingRefusedSeen ==
    /\ last.op \in {"GetLivestocksHandler", "GetEmployeesHandler"}
    /\ last.status = StatusForbidden
    /\ \E f \in Live(farms), u \in TokenHolders(last) :
          f.FarmID = last.req.farmId /\ f.UserID # u.UserID


----------------------------------------------------------------------------
(* By-ID endpoints *)

\* The handler the API description names for a method on <collection>/{id}.
ByIDHandler(method, prefix) ==
    CASE prefix = "/api/farms/" ->
            (CASE method = "GET" -> "GetFarmHandler" [] method = "PUT" -> "UpdateFarmHandler"
               [] method = "DELETE" -> "DeleteFarmHandler")
      [] prefix = "/api/crops/" ->
            (CASE method = "GET" -> "GetCropHandler" [] method = "PUT" -> "UpdateCropHandler"
               [] method = "DELETE" -> "DeleteCropHandler")
      [] prefix = "/api/livestock/" ->
            (CASE method = "GET" -> "GetLivestockHandler"
               [] method = "PUT" -> "UpdateLivestockHandler"
               [] method = "DELETE" -> "DeleteLivestockHandler")
      [] prefix = "/api/employees/" ->
            (CASE method = "GET" -> "GetEmployeeHandler"
               [] method = "PUT" -> "UpdateEmployeeHandler"
               [] method = "DELETE" -> "DeleteEmployeeHandler")

\* The response r answers a request sent to <collection>/<seg> by a caller
\* holding a token of a live account.
ByID(r) ==
    /\ r.op # ""
    /\ "url" \in DOMAIN r.req
    /\ r.req.url.seg # << >>
    /\ r.req.url.method \in ByIDMethods
    /\ Callers(r) # {}

\* C22: an owner's GET, PUT or DELETE sent to <collection>/{id}, for a live
\* record of the owner, is answered by the get / update / delete handler of
\* that resource kind, succeeds, and acts on the record whose public
\* identifier is the path segment.
ByIDEndpoint ==
    [][(last.op = "" /\ ByID(last') /\ last'.req.url.seg \in LiveIDsUnder(last'.req.url.prefix))
          => LET url == last'.req.url
             IN  /\ last'.op = ByIDHandler(url.method, url.prefix)
                 /\ last'.status = StatusOK
                 /\ IF url.method = "DELETE"
                    THEN url.seg \notin (LiveFarmIDs' \cup LiveCropIDs' \cup LiveLivestockIDs'
                                            \cup LiveEmployeeIDs')
                    ELSE last'.ids = {url.seg}]_vars

\* What holds: farm, crop and employee requests to <collection>/{id} reach the
\* named handler, which answers 400 when there is no `id` query parameter and
\* otherwise addresses the record that parameter names; the path segment is
\* not read.
ByIDEndpointReadsQuery ==
    [][(last.op = "" /\ ByID(last') /\ last'.req.url.prefix # "/api/livestock/")
          => LET url == last'.req.url
             IN  /\ last'.op = ByIDHandler(url.method, url.prefix)
                 /\ last'.ran
                 /\ (last'.req.id = << >>) => (last'.status = StatusBadRequest /\ store' = store)
                 /\ (last'.req.id # << >> /\ last'.status = StatusOK /\ url.method # "DELETE")
                        => last'.ids = {last'.req.id}]_vars

\* The owner's GET of <farms>/{id} for a live farm was answered 400.
ByIDWithoutQuerySeen ==
    /\ ByID(last)
    /\ last.op = "GetFarmHandler"
    /\ last.req.url.seg \in LiveFarmIDs
    /\ last.req.id = << >>
    /\ last.status = StatusBadRequest

\* A request to <livestock>/{id} for a live livestock record matched no route.
LivestockByIDUnroutedSeen ==
    /\ ByID(last)
    /\ last.op = "NotFound"
    /\ last.req.url.prefix = "/api/livestock/"
    /\ last.req.url.seg \in LiveLivestockIDs


\* With the identifier repeated in the `id` query parameter, the owner's PUT
\* of <crops>/{id} updated the crop.
ByIDWithQuerySeen ==
    /\ ByID(last)
    /\ last.op = "UpdateCropHandler"
    /\ last.req.id = last.req.url.seg
    /\ last.status = StatusOK
    /\ last.ids = {last.req.url.seg}


----------------------------------------------------------------------------
(* Credential round trip *)

\* The response r reports that a signup or a reset set the credential; the
\* plaintext it set.
CredentialSet(r) ==
    \/ r.op = "SignupHandler" /\ r.status = StatusCreated
    \/ r.op = "ResetPasswordHandler" /\ r.status = StatusOK
PlaintextSet(r) ==
    IF r.op = "SignupHandler" THEN r.req.body.Password ELSE r.req.body.NewPassword

\* A login for the identity of the signup or reset just answered.
LoginFollows ==
    /\ CredentialSet(last)
    /\ last'.op = "LoginHandler"
    /\ last'.req.body.Email = last.req.body.Email

\* The login succeeded with a token whose claims identify the account.
LoggedIn(r) ==
    /\ r.status = StatusOK
    /\ Len(r.token) = 1
    /\ \E u \in Live(users) :
          /\ u.Email = r.req.body.Email
          /\ r.token[1].claims.UserID = u.ID
          /\ r.token[1].claims.Email = u.Email

\* C23: credential round trip. After a successful signup with plaintext p, or a
\* successful reset to p, a login of that identity with p succeeds and returns
\* a token whose claims identify the account, and a login with any other
\* plaintext (the previous password after a reset included) fails.
CredentialRoundTrip ==
    [][LoginFollows
          => IF last'.req.body.Password = PlaintextSet(last)
             THEN LoggedIn(last')
             ELSE last'.status # StatusOK /\ last'.token = << >>]_vars

\* What holds: the round trip for every credential shorter than the key bytes
\* the digest reads.
CredentialRoundTripWithinKey ==
    [][(LoginFollows /\ Len(PlaintextSet(last)) < BcryptKeyBytes)
          => IF last'.req.body.Password = PlaintextSet(last)
             THEN LoggedIn(last')
             ELSE last'.status # StatusOK /\ last'.token = << >>]_vars

\* A login succeeded with a plaintext other than the one the signup set.
LoginWithOtherPlaintextSeen ==
    /\ last.op = "LoginHandler"
    /\ last.status = StatusOK
    /\ last.req.body.Password = OverlongPassword
    /\ \E u \in Live(users) :
          u.Email = last.req.body.Email /\ u.Password = HashPassword(FullKeyPassword)

\* The credential of the account is "pw2" and a login with "pw1" was refused.
PreviousPasswordRefusedSeen ==
    /\ last.op = "LoginHandler"
    /\ last.status = StatusUnauthorized
    /\ last.req.body.Password = "pw1"
    /\ \E u \in Live(users) :
          u.Email = last.req.body.Email /\ u.Password = HashPassword("pw2")


----------------------------------------------------------------------------
(* Identity propagation *)

\* The claims of the token a request carries.
CarriedClaims(r) == TokenPart(r.req.auth)[1].claims

\* The account the handlers resolve from the claims of the token.
ClaimedAccount(r) == {u \in Live(users) : u.Email = CarriedClaims(r).Email}

\* C24: the identity a protected handler acts on is the claims of the token
\* JWTMiddleware validated: the X-User-ID, X-User-Email and X-User-Role it
\* reads equal those claims whatever values the client sent for those headers,
\* a farm it creates is owned by the account of the claims, and a farm it
\* returns, updates or deletes is one of that account's farms.
IdentityFromToken ==
    [][(last.op = "" /\ last'.op \in GatedOps /\ last'.ran)
          => /\ last'.hdr = ClaimHeaders(CarriedClaims(last'))
             /\ (last'.op = "CreateFarmHandler" /\ last'.status = StatusCreated)
                    => \E u \in ClaimedAccount(last') :
                          farms'[Len(farms')].UserID = u.UserID
             /\ (last'.op = "GetFarmsHandler" /\ last'.status = StatusOK)
                    => \E u \in ClaimedAccount(last') :
                          last'.ids = {f.FarmID : f \in {g \in Live(farms) :
                                                            g.UserID = u.UserID}}
             /\ (last'.op \in FarmTargetOps /\ last'.status = StatusOK)
                    => \E u \in ClaimedAccount(last'), f \in Live(farms) :
                          f.FarmID = last'.req.id /\ f.UserID = u.UserID]_vars

\* A request arrived with the X-User-* headers of another registered account,
\* as Admin, and the farm it created belongs to the account of the token.
IdentityFromTokenWitness ==
    /\ last.op = "CreateFarmHandler"
    /\ last.status = StatusCreated
    /\ last.req.hdr.XUserRole = "Admin"
    /\ \E u, v \in Live(users) :
          /\ u.ID # v.ID
          /\ last.req.hdr.XUserEmail = v.Email
          /\ CarriedClaims(last).Email = u.Email
          /\ farms[Len(farms)].UserID = u.UserID

\* With the headers of the owner, another account's request for the farm was
\* refused.
SpoofedOwnerRefusedSeen ==
    /\ last.op \in FarmTargetOps
    /\ last.status = StatusForbidden
    /\ \E f \in Live(farms), v \in Live(users) :
          /\ f.FarmID = last.req.id
          /\ f.UserID = v.UserID
          /\ last.req.hdr.XUserEmail = v.Email
          /\ CarriedClaims(last).Email # v.Email


-----------------------------------------------------------------------------
(* The code a reset is accepted with *)

ResetCall(r) == r.op = "UserRepo.ResetPasswordWithOTP"

\* otp is the code the most recent GenerateAndSaveOTP stored for the account,
\* it has not expired, and no reset has cleared it since.
CurrentCode(email, otp) ==
    /\ otp \in OTPCodes
    /\ now <= otpLog[email] + OTPValidMinutes
    /\ \E u \in Live(users) : u.Email = email /\ u.OTPCode = otp

\* C25: a call of UserRepo.ResetPasswordWithOTP returns nil only when the code
\* it is given is the one the most recent GenerateAndSaveOTP produced for the
\* account, unexpired and not used by a reset since; with any other code, the
\* empty one included, it returns an error and leaves the users table as it was.
ResetOnlyWithCurrentCode ==
    [][(last.op = "" /\ ResetCall(last'))
          => LET b == last'.req.body
             IN  \/ CurrentCode(b.Email, b.OTP)
                 \/ last'.msg # "" /\ users' = users]_vars

\* The empty code was accepted: the call came within the 15 minutes of a code
\* that an earlier reset had used, and it replaced the hash again.
EmptyCodeAcceptedSeen ==
    /\ ResetCall(last)
    /\ last.req.body.OTP = << >>
    /\ last.msg = ""
    /\ \E u \in Named(last) : u.Password = HashPassword("pw3") /\ u.OTPCode = << >>

\* What holds of UserRepo.ResetPasswordWithOTP: a call that gives a 6-digit
\* code returns nil exactly when that code is the stored one and the time is
\* not past its expiry, and then the hash is the new one and the code is
\* cleared; otherwise it returns an error and the users table is as it was.
ResetWithGivenCode ==
    [][(last.op = "" /\ ResetCall(last') /\ last'.req.body.OTP \in OTPCodes)
          => LET b == last'.req.body
             IN  IF CurrentCode(b.Email, b.OTP)
                 THEN /\ last'.msg = ""
                      /\ \A u \in Named(last') : \A v \in After(u) :
                            v.Password = HashPassword(b.NewPassword) /\ v.OTPCode = << >>
                 ELSE last'.msg # "" /\ users' = users]_vars

\* A used code was refused: the call gave the code of an earlier successful
\* reset, within its 15 minutes, and got an error.
UsedCodeRefusedSeen ==
    /\ ResetCall(last)
    /\ last.req.body.OTP \in OTPCodes
    /\ last.msg = "invalid or expired OTP"
    /\ now <= otpLog[last.req.body.Email] + OTPValidMinutes
    /\ \E u \in Named(last) : u.Password # HashPassword("pw1") /\ u.OTPCode = << >>


-----------------------------------------------------------------------------
(* Records under a deleted farm *)

ChildTargetOps == CropTargetOps \cup LivestockTargetOps \cup EmployeeTargetOps
ChildListOps == {"GetCropsHandler", "GetLivestocksHandler", "GetEmployeesHandler"}

DeletedFarmIDs == {f.FarmID : f \in Rows(farms) \ Live(farms)}

\* The request of r passed the middleware and addresses a deleted farm: it
\* names a live record under it, lists its records, or creates a record under it.
UnderDeletedFarm(r) ==
    /\ r.ran
    /\ \/ r.op \in ChildTargetOps /\ \E t \in Targets(r) : t.FarmID \in DeletedFarmIDs
       \/ r.op \in ChildListOps \cup CreateChildOps /\ r.req.farmId \in DeletedFarmIDs

\* The identity claim of the token r carries resolves to an account.
HasAccount(r) == \E tok \in Carried(r), u \in Live(users) : u.Email = tok.claims.Email

FarmDeletionKeepsRecords ==
    (last.op = "" /\ last'.op = "DeleteFarmHandler")
        => (crops' = crops /\ livestocks' = livestocks /\ employees' = employees)

NoAccountUnderDeletedFarmSeen ==
    /\ last.op = "GetCropsHandler"
    /\ UnderDeletedFarm(last)
    /\ ~HasAccount(last)
    /\ Outcome(last) = AccountNotFound


-----------------------------------------------------------------------------
(* The ownership guard and the caller's Active flag and Role *)

RoutedResourceOps ==
    {"CreateFarmHandler", "GetFarmsHandler", "GetFarmHandler",
     "UpdateFarmHandler", "DeleteFarmHandler", "CreateCropHandler",
     "GetCropsHandler", "GetCropHandler", "UpdateCropHandler",
     "DeleteCropHandler", "CreateLivestockHandler", "GetLivestocksHandler",
     "UpdateLivestockHandler", "DeleteLivestockHandler", "CreateEmployeeHandler",
     "GetEmployeesHandler", "GetEmployeeHandler", "UpdateEmployeeHandler",
     "DeleteEmployeeHandler"}

\* The status and message of each answer a handler gives when no store call
\* fails.
HandlerAnswers(op) ==
    CASE op = "CreateFarmHandler" ->
            {<<StatusBadRequest, "name and location are required">>,
             <<StatusUnauthorized, "user not authenticated">>,
             <<StatusBadRequest, "farm size must be greater than 0">>,
             <<StatusNotFound, "user not found">>,
             <<StatusCreated, "Farm created successfully">>}
      [] op = "GetFarmsHandler" ->
            {<<StatusUnauthorized, "user not authenticated">>,
             <<StatusNotFound, "user not found">>,
             <<StatusOK, "Farms retrieved successfully">>}
      [] op = "GetFarmHandler" ->
            {<<StatusBadRequest, "farm ID is required">>,
             <<StatusUnauthorized, "user not authenticated">>,
             <<StatusNotFound, "farm not found">>,
             <<StatusForbidden, "access denied: farm does not belong to user">>,
             <<StatusOK, "Farm retrieved successfully">>}
      [] op = "UpdateFarmHandler" ->
            {<<StatusBadRequest, "farm ID is required">>,
             <<StatusUnauthorized, "user not authenticated">>,
             <<StatusNotFound, "farm not found">>,
             <<StatusForbidden, "access denied: farm does not belong to user">>,
             <<StatusOK, "Farm updated successfully">>}
      [] op = "DeleteFarmHandler" ->
            {<<StatusBadRequest, "farm ID is required">>,
             <<StatusUnauthorized, "user not authenticated">>,
             <<StatusNotFound, "farm not found">>,
             <<StatusForbidden, "access denied: farm does not belong to user">>,
             <<StatusOK, "Farm deleted successfully">>}
      [] op = "CreateCropHandler" ->
            {<<StatusBadRequest, "name and quantity are required">>,
             <<StatusBadRequest, "farm ID is required">>,
             <<StatusUnauthorized, "user not authenticated">>,
             <<StatusNotFound, "user not found">>,
             <<StatusForbidden, "farm not found or access denied">>,
             <<StatusCreated, "Crop created successfully">>}
      [] op = "GetCropsHandler" ->
            {<<StatusBadRequest, "farm ID is required">>,
             <<StatusUnauthorized, "user not authenticated">>,
             <<StatusNotFound, "user not found">>,
             <<StatusForbidden, "farm not found or access denied">>,
             <<StatusOK, "Crops retrieved successfully">>}
      [] op = "GetCropHandler" ->
            {<<StatusBadRequest, "crop ID is required">>,
             <<StatusUnauthorized, "user not authenticated">>,
             <<StatusNotFound, "crop not found">>,
             <<StatusNotFound, "user not found">>,
             <<StatusForbidden, "access denied: crop does not belong to user's farm">>,
             <<StatusOK, "Crop retrieved successfully">>}
      [] op = "UpdateCropHandler" ->
            {<<StatusBadRequest, "crop ID is required">>,
             <<StatusUnauthorized, "user not authenticated">>,
             <<StatusNotFound, "crop not found">>,
             <<StatusNotFound, "user not found">>,
             <<StatusForbidden, "access denied: crop does not belong to user's farm">>,
             <<StatusOK, "Crop updated successfully">>}
      [] op = "DeleteCropHandler" ->
            {<<StatusBadRequest, "crop ID is required">>,
             <<StatusUnauthorized, "user not authenticated">>,
             <<StatusNotFound, "crop not found">>,
             <<StatusNotFound, "user not found">>,
             <<StatusForbidden, "access denied: crop does not belong to user's farm">>,
             <<StatusOK, "Crop deleted successfully">>}
      [] op = "CreateLivestockHandler" ->
            {<<StatusBadRequest, "type and count are required">>,
             <<StatusBadRequest, "farm ID is required">>,
             <<StatusUnauthorized, "user not authenticated">>,
             <<StatusNotFound, "user not found">>,
             <<StatusForbidden, "farm not found or access denied">>,
             <<StatusCreated, "Livestock created successfully">>}
      [] op = "GetLivestocksHandler" ->
            {<<StatusBadRequest, "farm ID is required">>,
             <<StatusUnauthorized, "user not authenticated">>,
             <<StatusNotFound, "user not found">>,
             <<StatusForbidden, "farm not found or access denied">>,
             <<StatusOK, "Livestock retrieved successfully">>}
      [] op = "UpdateLivestockHandler" ->
            {<<StatusBadRequest, "livestock ID is required">>,
             <<StatusUnauthorized, "user not authenticated">>,
             <<StatusNotFound, "livestock not found">>,
             <<StatusNotFound, "user not found">>,
             <<StatusForbidden, "access denied: livestock does not belong to user's farm">>,
             <<StatusOK, "Livestock updated successfully">>}
      [] op = "DeleteLivestockHandler" ->
            {<<StatusBadRequest, "livestock ID is required">>,
             <<StatusUnauthorized, "user not authenticated">>,
             <<StatusNotFound, "livestock not found">>,
             <<StatusNotFound, "user not found">>,
             <<StatusForbidden, "access denied: livestock does not belong to user's farm">>,
             <<StatusOK, "Livestock deleted successfully">>}
      [] op = "CreateEmployeeHandler" ->
            {<<StatusBadRequest, "firstName, lastName, and position are required">>,
             <<StatusBadRequest, "farm ID is required">>,
             <<StatusUnauthorized, "user not authenticated">>,
             <<StatusNotFound, "user not found">>,
             <<StatusForbidden, "farm not found or access denied">>,
             <<StatusBadRequest, "linked user not found">>,
             <<StatusCreated, "Employee created successfully">>}
      [] op = "GetEmployeesHandler" ->
            {<<StatusBadRequest, "farm ID is required">>,
             <<StatusUnauthorized, "user not authenticated">>,
             <<StatusNotFound, "user not found">>,
             <<StatusForbidden, "farm not found or access denied">>,
             <<StatusOK, "Employees retrieved successfully">>}
      [] op = "GetEmployeeHandler" ->
            {<<StatusBadRequest, "employee ID is required">>,
             <<StatusUnauthorized, "user not authenticated">>,
             <<StatusNotFound, "employee not found">>,
             <<StatusNotFound, "user not found">>,
             <<StatusForbidden, "access denied: employee does not belong to user's farm">>,
             <<StatusOK, "Employee retrieved successfully">>}
      [] op = "UpdateEmployeeHandler" ->
            {<<StatusBadRequest, "employee ID is required">>,
             <<StatusUnauthorized, "user not authenticated">>,
             <<StatusNotFound, "employee not found">>,
             <<StatusNotFound, "user not found">>,
             <<StatusForbidden, "access denied: employee does not belong to user's farm">>,
             <<StatusBadRequest, "linked user not found">>,
             <<StatusOK, "Employee updated successfully">>}
      [] op = "DeleteEmployeeHandler" ->
            {<<StatusBadRequest, "employee ID is required">>,
             <<StatusUnauthorized, "user not authenticated">>,
             <<StatusNotFound, "employee not found">>,
             <<StatusNotFound, "user not found">>,
             <<StatusForbidden, "access denied: employee does not belong to user's farm">>,
             <<StatusOK, "Employee deleted successfully">>}

\* The identifiers a response of op can carry.
KnownIDs(op) ==
    CASE op \in {"CreateFarmHandler", "GetFarmsHandler"} \cup FarmTargetOps ->
            {NewUUID("farm", i) : i \in 1..(Len(farms) + 1)}
      [] op \in {"CreateCropHandler", "GetCropsHandler"} \cup CropTargetOps ->
            {NewUUID("crop", i) : i \in 1..(Len(crops) + 1)}
      [] op \in {"CreateLivestockHandler", "GetLivestocksHandler"} \cup LivestockTargetOps ->
            {NewUUID("livestock", i) : i \in 1..(Len(livestocks) + 1)}
      [] OTHER -> {NewUUID("employee", i) : i \in 1..(Len(employees) + 1)}

\* The farm, crop, livestock and employee tables a request to op can leave:
\* the tables as they are, or with the one row op inserts, saves or deletes.
Effects(op, req) ==
    {<<farms, crops, livestocks, employees>>}
    \cup
    CASE op = "CreateFarmHandler" ->
            {<<Append(farms, NewFarm(req.body, u.UserID)), crops, livestocks, employees>> :
                u \in Rows(users)}
      [] op = "UpdateFarmHandler" ->
            {<<SaveRow(farms, MergeFarm(f, req.body)), crops, livestocks, employees>> :
                f \in Live(farms)}
      [] op = "DeleteFarmHandler" ->
            {<<SoftDelete(farms, f.ID), crops, livestocks, employees>> : f \in Live(farms)}
      [] op = "CreateCropHandler" ->
            {<<farms, Append(crops, NewCrop(req.body, req.farmId)), livestocks, employees>>}
      [] op = "UpdateCropHandler" ->
            {<<farms, SaveRow(crops, MergeCrop(c, req.body)), livestocks, employees>> :
                c \in Live(crops)}
      [] op = "DeleteCropHandler" ->
            {<<farms, SoftDelete(crops, c.ID), livestocks, employees>> : c \in Live(crops)}
      [] op = "CreateLivestockHandler" ->
            {<<farms, crops, Append(livestocks, NewLivestock(req.body, req.farmId)), employees>>}
      [] op = "UpdateLivestockHandler" ->
            {<<farms, crops, SaveRow(livestocks, MergeLivestock(l, req.body)), employees>> :
                l \in Live(livestocks)}
      [] op = "DeleteLivestockHandler" ->
            {<<farms, crops, SoftDelete(livestocks, l.ID), employees>> : l \in Live(livestocks)}
      [] op = "CreateEmployeeHandler" ->
            IF LinkRequested(req.body.UserID) /\ LinkedUser(req.body.UserID) = << >>
            THEN {}
            ELSE {<<farms, crops, livestocks,
                    Append(employees, NewEmployee(req.body, req.farmId))>>}
      [] op = "UpdateEmployeeHandler" ->
            IF LinkRequested(req.body.UserID) /\ LinkedUser(req.body.UserID) = << >>
            THEN {}
            ELSE {<<farms, crops, livestocks,
                    SaveRow(employees, MergeEmployee(e, req.body))>> : e \in Live(employees)}
      [] op = "DeleteEmployeeHandler" ->
            {<<farms, crops, livestocks, SoftDelete(employees, e.ID)>> : e \in Live(employees)}
      [] OTHER -> {}

\* The handler run JWTMiddleware starts for a request that carries the token
\* tok, once it has validated tok: the X-User-* headers are set from its claims.
Handle(op, req, tok) ==
    Invoke([op |-> op,
            req |-> [req EXCEPT !.auth = Bearer(<<tok>>)],
            hdr |-> SetHeaders(req.hdr, tok.claims)])

Answers(op, req, tok, a) ==
    ENABLED (Handle(op, req, tok) /\ last'.status = a[1] /\ last'.msg = a[2])

Lists(op, req, tok, ids) == ENABLED (Handle(op, req, tok) /\ last'.ids = ids)

\* The run leaves the farm, crop, livestock and employee tables as t and the
\* accounts and the issued tokens as they are.
Leaves(op, req, tok, t) ==
    ENABLED (/\ Handle(op, req, tok)
             /\ <<farms', crops', livestocks', employees'>> = t
             /\ users' = users /\ issued' = issued)

\* What the run does in the current state: the response and the tables it leaves.
RunOutcome(op, req, tok) ==
    [answer |-> CHOOSE a \in HandlerAnswers(op) : Answers(op, req, tok, a),
     ids |-> IF Lists(op, req, tok, {}) THEN {}
             ELSE CHOOSE ids \in SUBSET KnownIDs(op) : Lists(op, req, tok, ids),
     tables |-> IF Leaves(op, req, tok, <<farms, crops, livestocks, employees>>)
                THEN <<farms, crops, livestocks, employees>>
                ELSE CHOOSE t \in Effects(op, req) : Leaves(op, req, tok, t)]

\* The run gives the outcome o.
Yields(op, req, tok, o) ==
    ENABLED (/\ Handle(op, req, tok)
             /\ last'.status = o.answer[1] /\ last'.msg = o.answer[2] /\ last'.ids = o.ids
             /\ <<farms', crops', livestocks', employees'>> = o.tables
             /\ users' = users /\ issued' = issued)

\* The requests to op, whatever token they carry.
RequestsTo(op) == {[req EXCEPT !.auth = NoAuth] : req \in RequestsOnFault(op)}

\* The step deactivates account i or makes it an Admin, and changes nothing
\* else. (The reverse changes are the same pairs of states.)
FlagOrRoleChange(i) ==
    /\ i \in 1..Len(users)
    /\ last = Idle /\ last' = Idle
    /\ Len(users') = Len(users)
    /\ \/ users[i].Active /\ users' = [users EXCEPT ![i].Active = FALSE]
       \/ users[i].Role = "Farmer" /\ users' = [users EXCEPT ![i].Role = "Admin"]
    /\ <<farms, crops, livestocks, employees, issued, now, env>>'
            = <<farms, crops, livestocks, employees, issued, now, env>>

\* The tokens held for the account with that e-mail; all are within their
\* validity window when no time passes.
TokensOf(email) == {tok \in Tokens : tok.claims.Email = email /\ ValidateJWT(<<tok>>).ok}

\* C27: a request to a farm, crop, livestock or employee route has the same
\* response and leaves the same tables whatever the Active flag and the Role
\* of the caller's account are, in the store and in the token: when a step
\* changes only the flag or the role of an account, every request under a token
\* of that account yields afterwards, under the same or any other token of the
\* account, the outcome it yielded before.
GuardIgnoresActiveAndRole ==
    [][\A i \in 1..Len(users) :
          FlagOrRoleChange(i)
              => \A op \in RoutedResourceOps : \A req \in RequestsTo(op) :
                    \A t1 \in TokensOf(users[i].Email) :
                        ENABLED Handle(op, req, t1)
                            => \E o \in {RunOutcome(op, req, t1)} :
                                  \A t2 \in TokensOf(users[i].Email) :
                                      Yields(op, req, t2, o)']_vars

\* C27 is exercised: the owner, whose account has since been deactivated and
\* given another role than its token states, updated a crop of its farm.
GuardIgnoresActiveAndRoleWitness ==
    /\ last.op = "UpdateCropHandler"
    /\ last.status = StatusOK
    /\ \E u \in Callers(last), tok \in Carried(last) :
          /\ ~u.Active
          /\ tok.claims.Role # u.Role
          /\ \E c \in Targets(last), f \in Live(farms) :
                c.FarmID = f.FarmID /\ f.UserID = u.UserID

\* An account that is not the owner, deactivated or not, was refused a farm.
InactiveStrangerRefusedSeen ==
    /\ last.op = "GetFarmHandler"
    /\ last.status = StatusForbidden
    /\ \E u \in Callers(last) : ~u.Active /\ u.Role = "Admin"
    /\ Targets(last) # {}

----------------------------------------------------------------------------
(* What a successful update changes *)

TextFields ==
    {"Name", "Description", "Location", "FarmType", "Status", "Notes", "Type",
     "HealthStatus", "FirstName", "LastName", "Position", "ContactInfo"}
NumberFields == {"Size", "Quantity", "Count", "Salary"}
PointerFields == {"PlantingDate", "HarvestDate", "AcquisitionDate", "HireDate", "UserID"}

\* The request supplies field k: a non-empty text, a positive number or a
\* non-nil pointer.
Supplied(b, k) ==
    /\ k \in DOMAIN b
    /\ CASE k \in TextFields -> b[k] # ""
         [] k \in NumberFields -> b[k] > 0
         [] k \in PointerFields -> b[k] # << >>
         [] OTHER -> FALSE

TableOf(op) ==
    CASE op = "UpdateFarmHandler" -> farms
      [] op = "UpdateCropHandler" -> crops
      [] op = "UpdateLivestockHandler" -> livestocks
      [] op = "UpdateEmployeeHandler" -> employees

PublicID(op, row) ==
    CASE op = "UpdateFarmHandler" -> row.FarmID
      [] op = "UpdateCropHandler" -> row.CropID
      [] op = "UpdateLivestockHandler" -> row.LivestockID
      [] op = "UpdateEmployeeHandler" -> row.EmployeeID

----------------------------------------------------------------------------
(* What a refused reset tells about the account *)

\* The response carries the refusal and nothing else: no token, no
\* identifier, and it is the response of a handler whose store calls returned.
PlainRefusal(r) ==
    /\ Outcome(r) = InvalidOrExpiredCode
    /\ r.token = << >>
    /\ r.ids = {}
    /\ ~r.failed

\* C29: a reset request with identity, code and new credential receives the
\* same response, 400 "invalid or expired reset code" and nothing more, when
\* no account is registered under the identity as when an account is
\* registered and the code differs from its stored code or the stored expiry
\* has passed; the users table is unchanged in both cases.
ResetHidesAccountExistence ==
    [][(last.op = "" /\ WellFormedReset(last'))
          => /\ (Named(last') = {}) => (PlainRefusal(last') /\ users' = users)
             /\ \A u \in Named(last') :
                   (u.OTPCode # last'.req.body.OTP \/ now > u.OTPExpiresAt)
                       => (PlainRefusal(last') /\ users' = users)]_vars

\* C29 is exercised: a reset for an identity with no account was refused
\* while a registered account held the very code the request presented,
\* unexpired.
ResetHidesAccountExistenceWitness ==
    /\ WellFormedReset(last)
    /\ Named(last) = {}
    /\ PlainRefusal(last)
    /\ \E u \in Live(users) :
          /\ u.OTPCode = last.req.body.OTP
          /\ now <= u.OTPExpiresAt
          /\ u.Email # last.req.body.Email

----------------------------------------------------------------------------
(* Deletion under a concurrent update *)

ResourceTables == <<farms, crops, livestocks, employees>>

ReadOps ==
    {"GetFarmHandler", "GetFarmsHandler", "GetCropHandler", "GetCropsHandler",
     "GetLivestocksHandler", "GetEmployeeHandler", "GetEmployeesHandler"}

\* The public identifiers of the deleted farms, crops, livestock and employees.
DeletedRecordIDs ==
    {f.FarmID : f \in Rows(farms) \ Live(farms)}
        \cup {c.CropID : c \in Rows(crops) \ Live(crops)}
        \cup {l.LivestockID : l \in Rows(livestocks) \ Live(livestocks)}
        \cup {e.EmployeeID : e \in Rows(employees) \ Live(employees)}

\* C30: a farm, crop, livestock or employee record that is deleted stays
\* deleted through every later step, the Save of an update that read the
\* record before it was deleted included, and no get or list returns a
\* deleted record.
DeletionIsFinal ==
    [][/\ \A t \in 1..Len(ResourceTables) :
            \A i \in 1..Len(ResourceTables[t]) :
                ResourceTables[t][i].Deleted
                    => (Len(ResourceTables'[t]) >= i /\ ResourceTables'[t][i].Deleted)
       /\ (last.op = "" /\ last'.op \in ReadOps /\ last'.status = StatusOK)
            => (last'.ids \cap DeletedRecordIDs = {})]_vars

\* C30's interleaving has come about: an update holds its copy of a record
\* that was deleted after the update read it, and has its Save still to do.
SaveOfDeletedRecordPending ==
    \E c \in inflight :
        /\ c.ctx.op \in UpdateOps
        /\ ~c.row.Deleted
        /\ c.ctx.req.id \in DeletedRecordIDs

=============================================================================
